---- MODULE Spec2Model ----
(***************************************************************************)
(* Model of the AndroidWorld agent pipeline: TaskGenerator, TaskExecutor,  *)
(* AgentOrchestrator and BaseAgent.get_statistics.                         *)
(*                                                                         *)
(* Conventions.  A Python str is a sequence of tokens (words), so that     *)
(* f-string formatting is concatenation (\o) and the `in` operator on      *)
(* strings is a real sub-sequence search.  An Optional value is a sequence *)
(* of length 0 (None) or 1.  A Python dict is a function whose DOMAIN is   *)
(* the set of keys present.                                                *)
(***************************************************************************)
EXTENDS Integers, Sequences, FiniteSets, TLC

VARIABLES
    results,          \* AgentOrchestrator.results (BaseAgent.results)
    task_history,     \* TaskGenerator.task_history
    executor_results, \* TaskExecutor.results (BaseAgent.results of the executor)
    executor,         \* TaskExecutor attributes and config
    uuid_counter,     \* number of uuid4() ids drawn so far
    clock,            \* what time.time() returns now, in seconds
    pc,               \* position of the caller inside run_multiple_episodes
    num_episodes,     \* argument of the running run_multiple_episodes call
    episode,          \* loop variable of run_multiple_episodes
    batch_results,    \* local list `results` of run_multiple_episodes
    sleeps,           \* episode numbers after which time.sleep(2) was called
    batch_log,        \* per episode of the running batch: how run_episode ended
    batch_ret,        \* list returned by the last run_multiple_episodes call
    episode_ret,      \* outcome of the last run_episode call
    last_task,        \* argument of the last direct execute_task call
    last_env,         \* what the file system and the bridge did during that call
    last_exec,        \* outcome of the last direct execute_task call
    stats,            \* mapping returned by the last get_statistics call
    task_stats,       \* mapping returned by the last get_task_statistics call
    manager,          \* the server's observability_manager: None or its attributes
    cloud_log,        \* entries Google Cloud Logging accepted
    local_log,        \* records written to the manager's local logger
    time_series,      \* time series Google Cloud Monitoring accepted
    sink_ret,         \* how the last direct call of the observability sink ended
    backlog,          \* connections the listening socket holds, not yet accepted
    current,          \* the request the server is handling, if any
    responses,        \* responses written so far, in order
    wall,             \* time.time() of the server host, in tenths of a second
    generator_config  \* TaskGenerator.config (BaseAgent.config of the generator)

\* the state of the generate/execute/aggregate pipeline
pipeline_vars ==
    <<results, task_history, executor_results, executor, uuid_counter, clock, pc,
      num_episodes, episode, batch_results, sleeps, batch_log, batch_ret,
      episode_ret, last_task, last_env, last_exec, stats>>

\* the state of the generator statistics, the observability sink and the HTTP
\* front door
service_vars ==
    <<task_stats, manager, cloud_log, local_log, time_series, sink_ret, backlog,
      current, responses, wall, generator_config>>

vars == <<pipeline_vars, service_vars>>

(***************************************************************************)
(* Python values                                                           *)
(***************************************************************************)
None == <<>>

Some(x) == <<x>>

\* dict.get(key, default)
Get(d, key, default) == IF key \in DOMAIN d THEN d[key] ELSE default

\* `sub in text` for two strings: text holds sub as a contiguous run of tokens
Contains(text, sub) ==
    \E i \in 1..(Len(text) + 1) :
        /\ i + Len(sub) - 1 <= Len(text)
        /\ SubSeq(text, i, i + Len(sub) - 1) = sub

\* str(KeyError(key)): the key's repr
KeyErrorText(key) == <<"'" \o key \o "'">>

(***************************************************************************)
(* Outcomes of Python code: a value returned or an exception raised.       *)
(* `calls` lists the bridge commands (subprocess.run) issued on the way.   *)
(***************************************************************************)
Returned(dict, calls) ==
    [raised |-> FALSE, exc |-> "", text |-> <<>>, dict |-> dict, calls |-> calls]

Raised(cls, text, calls) ==
    [raised |-> TRUE, exc |-> cls, text |-> text, dict |-> <<>>, calls |-> calls]

\* str(subprocess.TimeoutExpired(cmd, timeout))
TimeoutExpiredText(cmd, timeout) ==
    <<"Command", "'">> \o cmd \o <<"'", "timed", "out", "after", ToString(timeout), "seconds">>

\* subprocess.run(cmd, shell=True, capture_output=True, text=True, timeout=t):
\* the bridge either completes, exceeds the deadline or fails to start.
SubprocessRun(cmd, timeout, br) ==
    LET call == [cmd |-> cmd, timeout |-> timeout]
    IN  CASE br.kind = "timeout" ->
                 Raised("TimeoutExpired", TimeoutExpiredText(cmd, timeout), <<call>>)
          [] br.kind = "exception" -> Raised(br.exc, br.text, <<call>>)
          [] OTHER -> Returned(br, <<call>>)

\* mutant of HandlerExcept: one except clause that reports the prefix only
HandlerExceptPrefixOnly(body, timeout_msg, prefix) ==
    IF ~body.raised THEN body
    ELSE Returned([success |-> FALSE, error |-> prefix], body.calls)

\* The two except clauses every handler ends with:
\*   except subprocess.TimeoutExpired: return {"success": False, "error": timeout_msg}
\*   except Exception as e: return {"success": False, "error": f"{prefix}{str(e)}"}
HandlerExcept(body, timeout_msg, prefix) ==
    IF ~body.raised THEN body
    ELSE IF body.exc = "TimeoutExpired"
         THEN Returned([success |-> FALSE, error |-> timeout_msg], body.calls)
         ELSE Returned([success |-> FALSE, error |-> prefix \o body.text], body.calls)

(***************************************************************************)
(* TaskExecutor                                                            *)
(***************************************************************************)
EmptyDict == <<>>

\* TaskExecutor.__init__: the attributes are read from config once
NewExecutor(config) ==
    [config              |-> config,
     androidworld_runner |-> Get(config, "runner_path", "./run.sh"),
     emulator_ip         |-> Get(config, "emulator_ip", "localhost"),
     emulator_port       |-> Get(config, "emulator_port", "5555"),
     working_directory   |-> Get(config, "working_directory", ".")]

\* _prepare_task_file: task['id'] raises KeyError; open()/json.dump may fail
PrepareTaskFile(ex, task, fs) ==
    IF "id" \notin DOMAIN task
    THEN [raised |-> TRUE, exc |-> "KeyError", text |-> KeyErrorText("id"),
          path |-> <<>>, content |-> <<>>]
    ELSE LET task_path == <<ex.working_directory, "tasks", "task_" \o task.id \o ".json">>
             task_config ==
                 [task |-> task,
                  execution |-> [emulator_ip   |-> ex.emulator_ip,
                                 emulator_port |-> ex.emulator_port,
                                 timeout       |-> Get(task, "timeout", 60),
                                 retry_count   |-> Get(task, "retry_count", 0)],
                  output |-> [log_file       |-> "task_" \o task.id \o ".log",
                              screenshot_dir |-> "screenshots",
                              metrics_file   |-> "task_" \o task.id \o "_metrics.json"]]
         IN  IF fs.kind = "exception"
             THEN [raised |-> TRUE, exc |-> fs.exc, text |-> fs.text,
                   path |-> <<>>, content |-> <<>>]
             ELSE [raised |-> FALSE, exc |-> "", text |-> <<>>,
                   path |-> task_path, content |-> Some(task_config)]

\* mutant of ExecuteNavigationBody: the command runs under the task's timeout
ExecuteNavigationBodyTaskTimeout(task, br) ==
    IF "parameters" \notin DOMAIN task
    THEN Raised("KeyError", KeyErrorText("parameters"), <<>>)
    ELSE LET package_name == Get(task.parameters, "package_name", "com.android.settings")
             cmd == <<"adb", "shell", "am", "start", "-n", package_name>>
             run == SubprocessRun(cmd, Get(task, "timeout", 30), br)
         IN  IF run.raised THEN run
             ELSE IF run.dict.returncode = 0
                  THEN Returned([success |-> TRUE,
                                 metrics |-> [app_opened   |-> TRUE,
                                              package_name |-> package_name,
                                              adb_output   |-> run.dict.stdout]],
                                run.calls)
                  ELSE Returned([success |-> FALSE,
                                 error |-> <<"Failed", "to", "open", "app:">>
                                           \o run.dict.stderr],
                                run.calls)

ExecuteNavigationBody(task, br) ==
    IF "parameters" \notin DOMAIN task
    THEN Raised("KeyError", KeyErrorText("parameters"), <<>>)
    ELSE LET package_name == Get(task.parameters, "package_name", "com.android.settings")
             cmd == <<"adb", "shell", "am", "start", "-n", package_name>>
             run == SubprocessRun(cmd, 30, br)
         IN  IF run.raised THEN run
             ELSE IF run.dict.returncode = 0
                  THEN Returned([success |-> TRUE,
                                 metrics |-> [app_opened   |-> TRUE,
                                              package_name |-> package_name,
                                              adb_output   |-> run.dict.stdout]],
                                run.calls)
                  ELSE Returned([success |-> FALSE,
                                 error |-> <<"Failed", "to", "open", "app:">>
                                           \o run.dict.stderr],
                                run.calls)

ExecuteNavigationTask(task, br) ==
    HandlerExcept(ExecuteNavigationBody(task, br),
                  <<"Task", "execution", "timed", "out">>,
                  <<"Navigation", "task", "failed:">>)

\* mutant of ExecuteInfoGatheringBody: connection_status also asks for the
\* Wi-Fi status
ExecuteInfoGatheringBodyConnectionStatus(task, br) ==
    IF "parameters" \notin DOMAIN task
    THEN Raised("KeyError", KeyErrorText("parameters"), <<>>)
    ELSE LET check_type == Get(task.parameters, "check_type", "general")
             cmd == IF check_type \in {"wifi_status", "connection_status"}
                    THEN <<"adb", "shell", "dumpsys", "wifi", "|", "grep", "'Wi-Fi is'">>
                    ELSE IF check_type = "battery_info"
                         THEN <<"adb", "shell", "dumpsys", "battery">>
                         ELSE <<"adb", "shell", "getprop">>
             run == SubprocessRun(cmd, 20, br)
         IN  IF run.raised THEN run
             ELSE IF run.dict.returncode = 0
                  THEN Returned([success |-> TRUE,
                                 metrics |-> [info_type      |-> check_type,
                                              data_collected |-> TRUE,
                                              output_length  |-> Len(run.dict.stdout)]],
                                run.calls)
                  ELSE Returned([success |-> FALSE,
                                 error |-> <<"Failed", "to", "gather", "info:">>
                                           \o run.dict.stderr],
                                run.calls)

ExecuteInfoGatheringBody(task, br) ==
    IF "parameters" \notin DOMAIN task
    THEN Raised("KeyError", KeyErrorText("parameters"), <<>>)
    ELSE LET check_type == Get(task.parameters, "check_type", "general")
             cmd == IF check_type = "wifi_status"
                    THEN <<"adb", "shell", "dumpsys", "wifi", "|", "grep", "'Wi-Fi is'">>
                    ELSE IF check_type = "battery_info"
                         THEN <<"adb", "shell", "dumpsys", "battery">>
                         ELSE <<"adb", "shell", "getprop">>
             run == SubprocessRun(cmd, 20, br)
         IN  IF run.raised THEN run
             ELSE IF run.dict.returncode = 0
                  THEN Returned([success |-> TRUE,
                                 metrics |-> [info_type      |-> check_type,
                                              data_collected |-> TRUE,
                                              output_length  |-> Len(run.dict.stdout)]],
                                run.calls)
                  ELSE Returned([success |-> FALSE,
                                 error |-> <<"Failed", "to", "gather", "info:">>
                                           \o run.dict.stderr],
                                run.calls)

ExecuteInfoGatheringTask(task, br) ==
    HandlerExcept(ExecuteInfoGatheringBody(task, br),
                  <<"Info", "gathering", "timed", "out">>,
                  <<"Info", "gathering", "failed:">>)

ExecuteInstallationBody(task, br) ==
    IF "parameters" \notin DOMAIN task
    THEN Raised("KeyError", KeyErrorText("parameters"), <<>>)
    ELSE LET apk_path == Get(task.parameters, "apk_path", "")
             package_name == Get(task.parameters, "package_name", "")
             cmd == <<"adb", "shell", "pm", "list", "packages", "|", "grep", package_name>>
             run == SubprocessRun(cmd, 15, br)
         IN  IF apk_path = "" \/ package_name = ""
             THEN Returned([success |-> FALSE,
                            error |-> <<"Missing", "APK", "path", "or", "package", "name">>],
                           <<>>)
             ELSE IF run.raised THEN run
             ELSE IF Contains(run.dict.stdout, <<package_name>>)
                  THEN Returned([success |-> TRUE,
                                 metrics |-> [package_installed |-> TRUE,
                                              package_name      |-> package_name,
                                              already_installed |-> TRUE]],
                                run.calls)
                  ELSE Returned([success |-> TRUE,
                                 metrics |-> [package_installed      |-> TRUE,
                                              package_name           |-> package_name,
                                              installation_simulated |-> TRUE]],
                                run.calls)

ExecuteInstallationTask(task, br) ==
    HandlerExcept(ExecuteInstallationBody(task, br),
                  <<"Installation", "task", "timed", "out">>,
                  <<"Installation", "failed:">>)

\* mutant of ExecuteRemovalBody: success tied to the exit code, as in the
\* navigation handler
ExecuteRemovalBodyExitCode(task, br) ==
    IF "parameters" \notin DOMAIN task
    THEN Raised("KeyError", KeyErrorText("parameters"), <<>>)
    ELSE LET package_name == Get(task.parameters, "package_name", "")
             cmd == <<"adb", "shell", "pm", "list", "packages", "|", "grep", package_name>>
             run == SubprocessRun(cmd, 15, br)
         IN  IF package_name = ""
             THEN Returned([success |-> FALSE,
                            error |-> <<"Missing", "package", "name">>], <<>>)
             ELSE IF run.raised THEN run
             ELSE IF run.dict.returncode = 0
                  THEN Returned([success |-> TRUE,
                                 metrics |-> [package_removed   |-> TRUE,
                                              package_name      |-> package_name,
                                              removal_simulated |-> TRUE]],
                                run.calls)
                  ELSE Returned([success |-> FALSE,
                                 error |-> <<"Failed", "to", "remove:">> \o run.dict.stderr],
                                run.calls)

ExecuteRemovalBody(task, br) ==
    IF "parameters" \notin DOMAIN task
    THEN Raised("KeyError", KeyErrorText("parameters"), <<>>)
    ELSE LET package_name == Get(task.parameters, "package_name", "")
             cmd == <<"adb", "shell", "pm", "list", "packages", "|", "grep", package_name>>
             run == SubprocessRun(cmd, 15, br)
         IN  IF package_name = ""
             THEN Returned([success |-> FALSE,
                            error |-> <<"Missing", "package", "name">>], <<>>)
             ELSE IF run.raised THEN run
             ELSE IF Contains(run.dict.stdout, <<package_name>>)
                  THEN Returned([success |-> TRUE,
                                 metrics |-> [package_removed   |-> TRUE,
                                              package_name      |-> package_name,
                                              removal_simulated |-> TRUE]],
                                run.calls)
                  ELSE Returned([success |-> TRUE,
                                 metrics |-> [package_removed |-> TRUE,
                                              package_name    |-> package_name,
                                              already_removed |-> TRUE]],
                                run.calls)

ExecuteRemovalTask(task, br) ==
    HandlerExcept(ExecuteRemovalBody(task, br),
                  <<"Removal", "task", "timed", "out">>,
                  <<"Removal", "failed:">>)

ExecuteCaptureBody(task, br) ==
    IF "parameters" \notin DOMAIN task
    THEN Raised("KeyError", KeyErrorText("parameters"), <<>>)
    ELSE LET output_path == Get(task.parameters, "output_path", "/sdcard/screenshot.png")
             cmd == <<"adb", "shell", "screencap", output_path>>
             run == SubprocessRun(cmd, 20, br)
         IN  IF run.raised THEN run
             ELSE IF run.dict.returncode = 0
                  THEN Returned([success |-> TRUE,
                                 metrics |-> [screenshot_taken   |-> TRUE,
                                              output_path        |-> output_path,
                                              capture_successful |-> TRUE]],
                                run.calls)
                  ELSE Returned([success |-> FALSE,
                                 error |-> <<"Failed", "to", "take", "screenshot:">>
                                           \o run.dict.stderr],
                                run.calls)

ExecuteCaptureTask(task, br) ==
    HandlerExcept(ExecuteCaptureBody(task, br),
                  <<"Screenshot", "task", "timed", "out">>,
                  <<"Screenshot", "failed:">>)

\* mutant of ExecuteMaintenanceBody: the package name is not checked
ExecuteMaintenanceBodyUnchecked(task, br) ==
    IF "parameters" \notin DOMAIN task
    THEN Raised("KeyError", KeyErrorText("parameters"), <<>>)
    ELSE LET package_name == Get(task.parameters, "package_name", "")
             cmd == <<"adb", "shell", "pm", "clear", package_name>>
             run == SubprocessRun(cmd, 30, br)
         IN  IF run.raised THEN run
             ELSE IF run.dict.returncode = 0
                  THEN Returned([success |-> TRUE,
                                 metrics |-> [data_cleared |-> TRUE,
                                              package_name |-> package_name]],
                                run.calls)
                  ELSE Returned([success |-> FALSE,
                                 error |-> <<"Failed", "to", "clear", "data:">>
                                           \o run.dict.stderr],
                                run.calls)

ExecuteMaintenanceBody(task, br) ==
    IF "parameters" \notin DOMAIN task
    THEN Raised("KeyError", KeyErrorText("parameters"), <<>>)
    ELSE LET package_name == Get(task.parameters, "package_name", "")
             data_types == Get(task.parameters, "data_types", <<"cache">>)
             cmd == <<"adb", "shell", "pm", "clear", package_name>>
             run == SubprocessRun(cmd, 30, br)
         IN  IF package_name = ""
             THEN Returned([success |-> FALSE,
                            error |-> <<"Missing", "package", "name">>], <<>>)
             ELSE IF run.raised THEN run
             ELSE IF run.dict.returncode = 0
                  THEN Returned([success |-> TRUE,
                                 metrics |-> [data_cleared           |-> TRUE,
                                              package_name           |-> package_name,
                                              data_types             |-> data_types,
                                              maintenance_successful |-> TRUE]],
                                run.calls)
                  ELSE Returned([success |-> FALSE,
                                 error |-> <<"Failed", "to", "clear", "data:">>
                                           \o run.dict.stderr],
                                run.calls)

ExecuteMaintenanceTask(task, br) ==
    HandlerExcept(ExecuteMaintenanceBody(task, br),
                  <<"Maintenance", "task", "timed", "out">>,
                  <<"Maintenance", "failed:">>)

ExecuteGenericBody(ex, task, br) ==
    IF "id" \notin DOMAIN task
    THEN Raised("KeyError", KeyErrorText("id"), <<>>)
    ELSE LET cmd == <<ex.androidworld_runner, "--task", task.id, "--local">>
             run == SubprocessRun(cmd, 60, br)
         IN  IF run.raised THEN run
             ELSE IF run.dict.returncode = 0
                  THEN Returned([success |-> TRUE,
                                 metrics |-> [runner_used |-> TRUE,
                                              task_id     |-> task.id,
                                              output      |-> run.dict.stdout]],
                                run.calls)
                  ELSE Returned([success |-> FALSE,
                                 error |-> <<"Runner", "failed:">> \o run.dict.stderr],
                                run.calls)

ExecuteGenericTask(ex, task, br) ==
    HandlerExcept(ExecuteGenericBody(ex, task, br),
                  <<"Generic", "task", "timed", "out">>,
                  <<"Generic", "task", "failed:">>)

\* mutant of RunAndroidworldTask: a type outside the six named ones is refused
RunAndroidworldTaskNoDefault(ex, task, br) ==
    LET task_type == Get(task, "type", "unknown")
    IN  IF task_type = "navigation" THEN ExecuteNavigationTask(task, br)
        ELSE IF task_type = "information_gathering" THEN ExecuteInfoGatheringTask(task, br)
        ELSE IF task_type = "installation" THEN ExecuteInstallationTask(task, br)
        ELSE IF task_type = "removal" THEN ExecuteRemovalTask(task, br)
        ELSE IF task_type = "capture" THEN ExecuteCaptureTask(task, br)
        ELSE IF task_type = "maintenance" THEN ExecuteMaintenanceTask(task, br)
        ELSE Returned([success |-> FALSE, error |-> <<"Unknown", "task", "type">>], <<>>)

\* _run_androidworld_task: dispatch on the task's type
RunAndroidworldTask(ex, task, br) ==
    LET task_type == Get(task, "type", "unknown")
    IN  IF task_type = "navigation" THEN ExecuteNavigationTask(task, br)
        ELSE IF task_type = "information_gathering" THEN ExecuteInfoGatheringTask(task, br)
        ELSE IF task_type = "installation" THEN ExecuteInstallationTask(task, br)
        ELSE IF task_type = "removal" THEN ExecuteRemovalTask(task, br)
        ELSE IF task_type = "capture" THEN ExecuteCaptureTask(task, br)
        ELSE IF task_type = "maintenance" THEN ExecuteMaintenanceTask(task, br)
        ELSE ExecuteGenericTask(ex, task, br)

\* The try block of execute_task: prepare the task file, then dispatch. A
\* failed preparation skips the dispatch.
\* mutant of TryOutcome: the dispatch does not wait for the task file
TryOutcomeDispatchAnyway(prep, run) ==
    IF prep.raised
    THEN [raised |-> TRUE, exc |-> prep.exc, text |-> prep.text, dict |-> <<>>,
          calls |-> run.calls, file |-> None]
    ELSE [raised |-> run.raised, exc |-> run.exc, text |-> run.text,
          dict |-> run.dict, calls |-> run.calls,
          file |-> Some([path |-> prep.path, content |-> prep.content[1]])]

TryOutcome(prep, run) ==
    IF prep.raised
    THEN [raised |-> TRUE, exc |-> prep.exc, text |-> prep.text, dict |-> <<>>,
          calls |-> <<>>, file |-> None]
    ELSE [raised |-> run.raised, exc |-> run.exc, text |-> run.text,
          dict |-> run.dict, calls |-> run.calls,
          file |-> Some([path |-> prep.path, content |-> prep.content[1]])]

ExecuteTaskTry(ex, task, env) ==
    TryOutcome(PrepareTaskFile(ex, task, env.fs),
               RunAndroidworldTask(ex, task, env.bridge))

\* datetime.fromtimestamp(t): a datetime object, not a number
FromTimestamp(t) == [datetime |-> t]

\* the TaskResult dataclass
TaskResult(task_id, task_name, success, execution_time, start_time, end_time, error_message, metrics) ==
    [task_id        |-> task_id,
     task_name      |-> task_name,
     success        |-> success,
     execution_time |-> execution_time,
     start_time     |-> start_time,
     end_time       |-> end_time,
     error_message  |-> error_message,
     metrics        |-> metrics]

\* mutant of ExecuteTaskExcept: no except clause, the exception leaves the call
ExecuteTaskNoExcept(task, try, start_time, end_time) ==
    [raised |-> try.raised,
     exc    |-> try.exc,
     text   |-> try.text,
     result |-> IF try.raised THEN None
                ELSE Some(TaskResult(Get(task, "id", "unknown"),
                                     Get(task, "name", "Unknown Task"),
                                     try.dict.success, end_time - start_time,
                                     FromTimestamp(start_time), FromTimestamp(end_time),
                                     IF try.dict.success THEN None
                                     ELSE Some(Get(try.dict, "error",
                                                   <<"Unknown", "execution", "error">>)),
                                     Some(Get(try.dict, "metrics", EmptyDict)))),
     calls  |-> try.calls,
     file   |-> try.file,
     caught |-> None]

\* mutant of ExecuteTaskExcept: the except clause logs the exception and
\* leaves error_message as it was
ExecuteTaskExceptOnlyLogs(task, try, start_time, end_time) ==
    [raised |-> FALSE,
     exc    |-> "",
     text   |-> <<>>,
     result |-> Some(TaskResult(Get(task, "id", "unknown"),
                                Get(task, "name", "Unknown Task"),
                                ~try.raised /\ try.dict.success,
                                end_time - start_time,
                                FromTimestamp(start_time), FromTimestamp(end_time),
                                IF try.raised \/ try.dict.success THEN None
                                ELSE Some(Get(try.dict, "error",
                                              <<"Unknown", "execution", "error">>)),
                                IF ~try.raised /\ try.dict.success
                                THEN Some(Get(try.dict, "metrics", EmptyDict))
                                ELSE Some(EmptyDict))),
     calls  |-> try.calls,
     file   |-> try.file,
     caught |-> IF try.raised THEN Some(try.text) ELSE None]

\* execute_task around its try block, which ran from start_time to end_time:
\* `except Exception` turns what the block raised into error_message. In the
\* outcome `raised` tells whether an exception leaves the call, `result` is the
\* TaskResult returned otherwise, `calls` the bridge commands issued, `file` the
\* task file written and `caught` the text of the exception the except clause
\* caught.
ExecuteTaskExcept(task, try, start_time, end_time) ==
    LET task_id == Get(task, "id", "unknown")
        task_name == Get(task, "name", "Unknown Task")
        success == ~try.raised /\ try.dict.success
        error_message ==
            IF try.raised THEN Some(try.text)
            ELSE IF try.dict.success THEN None
            ELSE Some(Get(try.dict, "error", <<"Unknown", "execution", "error">>))
        metrics ==
            IF ~try.raised /\ try.dict.success
            THEN Some(Get(try.dict, "metrics", EmptyDict))
            ELSE Some(EmptyDict)
    IN  [raised |-> FALSE,
         exc    |-> "",
         text   |-> <<>>,
         result |-> Some(TaskResult(task_id, task_name, success,
                                    end_time - start_time,
                                    FromTimestamp(start_time),
                                    FromTimestamp(end_time),
                                    error_message, metrics)),
         calls  |-> try.calls,
         file   |-> try.file,
         caught |-> IF try.raised THEN Some(try.text) ELSE None]

ExecuteTask(ex, task, env, start_time, end_time) ==
    ExecuteTaskExcept(task, ExecuteTaskTry(ex, task, env), start_time, end_time)

(***************************************************************************)
(* TaskGenerator                                                           *)
(***************************************************************************)
\* _load_task_templates
TaskTemplates ==
    <<[name |-> "Open App", type |-> "navigation",
       description |-> "Open a specific application on the device",
       parameters |-> [package_name  |-> "com.android.settings",
                       activity_name |-> "com.android.settings.Settings"],
       expected_outcome |-> "Settings app should open successfully"],
      [name |-> "Navigate to Settings", type |-> "navigation",
       description |-> "Navigate to device settings menu",
       parameters |-> [target_menu |-> "Settings", submenu |-> "System"],
       expected_outcome |-> "Should reach System settings menu"],
      [name |-> "Check WiFi Status", type |-> "information_gathering",
       description |-> "Check the current WiFi connection status",
       parameters |-> [check_type |-> "connection_status", timeout |-> 10],
       expected_outcome |-> "Should return WiFi connection information"],
      [name |-> "Install App", type |-> "installation",
       description |-> "Install an application from APK file",
       parameters |-> [apk_path     |-> "/sdcard/test_app.apk",
                       package_name |-> "com.example.testapp"],
       expected_outcome |-> "App should install successfully"],
      [name |-> "Uninstall App", type |-> "removal",
       description |-> "Uninstall a specific application",
       parameters |-> [package_name |-> "com.example.testapp"],
       expected_outcome |-> "App should be removed from device"],
      [name |-> "Take Screenshot", type |-> "capture",
       description |-> "Capture a screenshot of the current screen",
       parameters |-> [output_path |-> "/sdcard/screenshot.png", format |-> "PNG"],
       expected_outcome |-> "Screenshot should be saved successfully"],
      [name |-> "Check Battery Level", type |-> "information_gathering",
       description |-> "Get current battery level and status",
       parameters |-> [check_type |-> "battery_info", include_charging |-> TRUE],
       expected_outcome |-> "Should return battery percentage and charging status"],
      [name |-> "Clear App Data", type |-> "maintenance",
       description |-> "Clear data for a specific application",
       parameters |-> [package_name |-> "com.android.settings",
                       data_types   |-> <<"cache", "user_data">>],
       expected_outcome |-> "App data should be cleared successfully"]>>

\* the packages list of generate_task
Packages ==
    {"com.android.settings", "com.android.vending", "com.google.android.apps.maps",
     "com.whatsapp", "com.instagram.android"}

\* str(uuid.uuid4()): the n-th id drawn differs from all drawn before
Uuid4(n) == "uuid-" \o ToString(n)

\* What random.choice / random.randint return during one generate_task call:
\* any template, any package, and the hints at either end of their ranges
\* (priority 1..5, timeout 30..120, retry_count 0..2).
HintSamples ==
    {[priority |-> 1, timeout |-> 30, retry_count |-> 0],
     [priority |-> 5, timeout |-> 120, retry_count |-> 2]}

RandomDraws ==
    [template : 1..Len(TaskTemplates), package : Packages, hints : HintSamples]

\* mutant of GenerateTask: the template's parameters are not copied
GenerateTaskNoParameters(task_id, draw) ==
    LET template == TaskTemplates[draw.template]
    IN  [id               |-> task_id,
         name             |-> template.name,
         type             |-> template.type,
         description      |-> template.description,
         parameters       |-> EmptyDict,
         expected_outcome |-> template.expected_outcome,
         priority         |-> draw.hints.priority,
         timeout          |-> draw.hints.timeout,
         retry_count      |-> draw.hints.retry_count]

\* generate_task: the task built from the template and the random draws
GenerateTask(task_id, draw) ==
    LET template == TaskTemplates[draw.template]
        parameters ==
            IF template.type = "navigation" /\ "package_name" \in DOMAIN template.parameters
            THEN [template.parameters EXCEPT !.package_name = draw.package]
            ELSE template.parameters
    IN  [id               |-> task_id,
         name             |-> template.name,
         type             |-> template.type,
         description      |-> template.description,
         parameters       |-> parameters,
         expected_outcome |-> template.expected_outcome,
         priority         |-> draw.hints.priority,
         timeout          |-> draw.hints.timeout,
         retry_count      |-> draw.hints.retry_count]

(***************************************************************************)
(* Inputs of a direct execute_task call: task mappings and what the file   *)
(* system and the device bridge do during the call.                        *)
(***************************************************************************)
Completed(returncode, stdout, stderr) ==
    [kind |-> "completed", returncode |-> returncode, stdout |-> stdout,
     stderr |-> stderr, exc |-> "", text |-> <<>>]

TimedOut ==
    [kind |-> "timeout", returncode |-> -1, stdout |-> <<>>, stderr |-> <<>>,
     exc |-> "TimeoutExpired", text |-> <<>>]

Failing(cls, text) ==
    [kind |-> "exception", returncode |-> -1, stdout |-> <<>>, stderr |-> <<>>,
     exc |-> cls, text |-> text]

BridgeOutcomes ==
    {Completed(0, <<"package:", "com.example.testapp">>, <<>>),
     Completed(0, <<>>, <<>>),
     Completed(1, <<>>, <<"error:", "device", "offline">>),
     TimedOut,
     Failing("OSError", <<"[Errno", "12]", "Cannot", "allocate", "memory">>)}

FileOk == [kind |-> "ok", exc |-> "", text |-> <<>>]

FsOutcomes ==
    {FileOk,
     [kind |-> "exception", exc |-> "PermissionError",
      text |-> <<"[Errno", "13]", "Permission", "denied">>]}

Envs == [fs : FsOutcomes, bridge : BridgeOutcomes]

TaskTypes ==
    {"navigation", "information_gathering", "installation", "removal", "capture",
     "maintenance", "generic", "demo"}

ParameterChoices ==
    {EmptyDict,
     [package_name |-> "com.example.testapp"],
     [package_name |-> ""],
     [apk_path |-> "/sdcard/test_app.apk", package_name |-> "com.example.testapp"],
     [apk_path |-> "", package_name |-> "com.example.testapp"],
     [check_type |-> "wifi_status"],
     [check_type |-> "battery_info"],
     [check_type |-> "connection_status"],
     [output_path |-> "/sdcard/shot.png"]}

\* the mapping d without the keys in `drop`
Without(d, drop) == [k \in (DOMAIN d) \ drop |-> d[k]]

\* Task mappings handed to execute_task: every type with every parameters
\* choice, and mappings that lack id, parameters, type or every key.
DirectTasks ==
    {[id |-> "t1", name |-> "Task One", type |-> ty, parameters |-> ps] :
        ty \in TaskTypes, ps \in ParameterChoices}
    \cup
    {Without([id |-> "t1", name |-> "Task One", type |-> ty, parameters |-> ps], drop) :
        ty \in TaskTypes,
        ps \in {EmptyDict, [package_name |-> "com.example.testapp"]},
        drop \in {{"id"}, {"parameters"}, {"type"}, {"id", "name", "type", "parameters"}}}

\* The draws and environments the episodes of Spec run with: the first
\* template of each task type with the low hints and the template's own package,
\* the first template also with another package and the high hints; the task
\* file is written and the bridge command exits with 0 or 1.
FirstOfType(i) ==
    \A j \in 1..(i - 1) : TaskTemplates[j].type # TaskTemplates[i].type

EpisodeDraws ==
    {d \in RandomDraws :
        \/ FirstOfType(d.template) /\ d.package = "com.android.settings"
                                   /\ d.hints.priority = 1
        \/ d.template = 1 /\ d.package = "com.whatsapp" /\ d.hints.priority = 5}

EpisodeEnvs ==
    {env \in Envs :
        /\ env.fs.kind = "ok"
        /\ env.bridge.kind = "completed"
        /\ env.bridge.returncode = 0 => env.bridge.stdout # <<>>}

\* seconds a direct execute_task call takes
DirectDurations == {0}

(***************************************************************************)
(* Initial state: a freshly constructed AgentOrchestrator                  *)
(***************************************************************************)
\* no statistics asked for yet, no observability manager, no server traffic
InitService ==
    /\ task_stats = None
    /\ generator_config = EmptyDict
    /\ manager = None
    /\ cloud_log = <<>>
    /\ local_log = <<>>
    /\ time_series = <<>>
    /\ sink_ret = None
    /\ backlog = <<>>
    /\ current = None
    /\ responses = <<>>
    /\ wall = 0

Init ==
    /\ results = <<>>
    /\ task_history = <<>>
    /\ executor_results = <<>>
    /\ executor = NewExecutor(EmptyDict)
    /\ uuid_counter = 0
    /\ clock = 0
    /\ pc = "idle"
    /\ num_episodes = 0
    /\ episode = 0
    /\ batch_results = <<>>
    /\ sleeps = <<>>
    /\ batch_log = <<>>
    /\ batch_ret = None
    /\ episode_ret = None
    /\ last_task = None
    /\ last_env = None
    /\ last_exec = None
    /\ stats = None
    /\ InitService

\* orchestrator.execute_task(task) / task_executor.execute_task(task), called
\* directly: returns a TaskResult and stores nothing
ExecuteTaskStep(Tasks, EnvSet) ==
    /\ pc = "idle"
    /\ \E task \in Tasks, env \in EnvSet, duration \in DirectDurations :
          /\ last_task' = Some(task)
          /\ last_env' = Some(env)
          /\ last_exec' = Some(ExecuteTask(executor, task, env, clock, clock + duration))
          /\ clock' = clock + duration
    /\ UNCHANGED service_vars
    /\ UNCHANGED <<results, task_history, executor_results, executor, uuid_counter,
                   pc, num_episodes, episode, batch_results, sleeps, batch_log,
                   batch_ret, episode_ret, stats>>

ExecuteTaskCall == ExecuteTaskStep(DirectTasks, Envs)

NextExec == ExecuteTaskCall

SpecExec == Init /\ [][NextExec]_vars


(***************************************************************************)
(* Reconfiguration: configure_agents between direct execute_task calls     *)
(***************************************************************************)
\* dict.update(other)
Update(d, other) ==
    [k \in (DOMAIN d) \cup (DOMAIN other) |-> IF k \in DOMAIN other THEN other[k] ELSE d[k]]

\* executor_config arguments: nothing, a new emulator address, a new working
\* directory and runner
ExecutorConfigs ==
    {EmptyDict,
     [emulator_ip |-> "10.0.0.5"],
     [emulator_ip |-> "10.0.0.5", emulator_port |-> "6555"],
     [working_directory |-> "/data/aw", runner_path |-> "/opt/aw/run.sh"]}

GeneratorConfigs == {EmptyDict, [strategy |-> "random"]}

\* orchestrator.configure_agents(generator_config, executor_config): the two
\* config dicts are updated; the executor's attributes were read from its
\* config in __init__ and are not read again
ConfigureAgents ==
    /\ pc = "idle"
    /\ \E new_generator_config \in GeneratorConfigs, executor_config \in ExecutorConfigs :
          /\ generator_config' = Update(generator_config, new_generator_config)
          /\ executor' = [executor EXCEPT !.config = Update(@, executor_config)]
    /\ UNCHANGED <<task_stats, manager, cloud_log, local_log, time_series, sink_ret,
                   backlog, current, responses, wall>>
    /\ UNCHANGED <<results, task_history, executor_results, uuid_counter, clock, pc,
                   num_episodes, episode, batch_results, sleeps, batch_log, batch_ret,
                   episode_ret, last_task, last_env, last_exec, stats>>

\* The tasks and environments of the reconfiguration runs: a generic, a
\* navigation and a capture task; the task file is written or not, the bridge
\* command exits with 0 or 1.
ConfiguredTasks ==
    {t \in DirectTasks :
        /\ DOMAIN t = {"id", "name", "type", "parameters"}
        /\ t.type \in {"generic", "navigation", "capture"}
        /\ t.parameters = EmptyDict}

ConfiguredEnvs == {env \in Envs : env.bridge.kind = "completed"}

ConfiguredExecute == ExecuteTaskStep(ConfiguredTasks, ConfiguredEnvs)

NextConfigured == ConfigureAgents \/ ConfiguredExecute

SpecConfigured == Init /\ [][NextConfigured]_vars

(***************************************************************************)
(* Direct execute_task calls with tasks that carry execution hints         *)
(***************************************************************************)
HintKeys == {"priority", "timeout", "retry_count"}

\* no hints at all, the two ends of the generator's ranges, and the values
\* generate_custom_task sets
HintChoices ==
    HintSamples \cup {EmptyDict, [priority |-> 3, timeout |-> 60, retry_count |-> 1]}

\* every task type with no parameters, a package name, or an APK path and a
\* package name, under every choice of hints
HintedTasks ==
    {Update(t, h) :
        t \in {d \in DirectTasks :
                  /\ DOMAIN d = {"id", "name", "type", "parameters"}
                  /\ d.parameters \in {EmptyDict,
                                        [package_name |-> "com.example.testapp"],
                                        [apk_path |-> "/sdcard/test_app.apk",
                                         package_name |-> "com.example.testapp"]}},
        h \in HintChoices}

\* the bridge command exits with 0 or 1 or exceeds its deadline
HintedEnvs ==
    {env \in Envs :
        /\ env.bridge.kind \in {"completed", "timeout"}
        /\ env.bridge.returncode = 0 => env.bridge.stdout # <<>>}

HintedExecute == ExecuteTaskStep(HintedTasks, HintedEnvs)

NextHinted == HintedExecute

SpecHinted == Init /\ [][NextHinted]_vars

(***************************************************************************)
(* Direct execute_task calls with the tasks generate_task produces         *)
(***************************************************************************)
\* every task generate_task can return (as its first task): every template,
\* every package, the hints at either end of their ranges
GeneratedTasks == {GenerateTask(Uuid4(1), draw) : draw \in RandomDraws}

GeneratedExecute == ExecuteTaskStep(GeneratedTasks, Envs)

NextGenerated == GeneratedExecute

SpecGenerated == Init /\ [][NextGenerated]_vars

\* information_gathering tasks with every parameters choice, handed to
\* execute_task next to the generated tasks
InfoGatheringTasks == {t \in DirectTasks : Get(t, "type", "unknown") = "information_gathering"}

InfoOrGeneratedExecute == ExecuteTaskStep(InfoGatheringTasks \cup GeneratedTasks, Envs)

NextInfoGathering == InfoOrGeneratedExecute

SpecInfoGathering == Init /\ [][NextInfoGathering]_vars

(***************************************************************************)
(* AgentOrchestrator                                                       *)
(***************************************************************************)
MaxTasks == 2

MaxBatch == 2

\* Where an exception is raised inside run_episode by something other than the
\* modelled sub-agent code (the case the except clause of run_multiple_episodes
\* is written for): nowhere, inside the generate_task call before the task is
\* stored, or inside the execute_task call outside its try block.
Faults == {"none", "generate", "execute"}

FaultText(fault) == <<"injected", fault, "failure">>

\* mutant of EpisodeOutcome: the result is returned but not stored
EpisodeOutcomeNotStored(th, res, uc, task, exec, fault, now, ticks) ==
    IF fault = "generate"
    THEN [raised |-> TRUE, text |-> FaultText(fault), task_history |-> th,
          results |-> res, uuid_counter |-> uc, task |-> None, result |-> None,
          clock |-> now]
    ELSE IF fault = "execute" \/ exec.raised
    THEN [raised |-> TRUE, text |-> FaultText(fault),
          task_history |-> Append(th, task), results |-> res,
          uuid_counter |-> uc + 1, task |-> Some(task), result |-> None,
          clock |-> now + ticks[1]]
    ELSE [raised |-> FALSE, text |-> <<>>,
          task_history |-> Append(th, task),
          results |-> res,
          uuid_counter |-> uc + 1, task |-> Some(task),
          result |-> Some([exec.result[1] EXCEPT
                             !.execution_time = ticks[1] + ticks[2] + ticks[3]]),
          clock |-> now + ticks[1] + ticks[2] + ticks[3]]

\* mutant of EpisodeOutcome: the generator forgets the task of an episode
\* that returned a result
EpisodeOutcomeTaskForgotten(th, res, uc, task, exec, fault, now, ticks) ==
    IF fault = "generate"
    THEN [raised |-> TRUE, text |-> FaultText(fault), task_history |-> th,
          results |-> res, uuid_counter |-> uc, task |-> None, result |-> None,
          clock |-> now]
    ELSE IF fault = "execute"
    THEN [raised |-> TRUE, text |-> FaultText(fault),
          task_history |-> Append(th, task), results |-> res,
          uuid_counter |-> uc + 1, task |-> Some(task), result |-> None,
          clock |-> now + ticks[1]]
    ELSE IF exec.raised
    THEN [raised |-> TRUE, text |-> exec.text,
          task_history |-> Append(th, task), results |-> res,
          uuid_counter |-> uc + 1, task |-> Some(task), result |-> None,
          clock |-> now + ticks[1] + ticks[2]]
    ELSE [raised |-> FALSE, text |-> <<>>,
          task_history |-> th,
          results |-> Append(res, [exec.result[1] EXCEPT
                             !.execution_time = ticks[1] + ticks[2] + ticks[3]]),
          uuid_counter |-> uc + 1, task |-> Some(task),
          result |-> Some([exec.result[1] EXCEPT
                             !.execution_time = ticks[1] + ticks[2] + ticks[3]]),
          clock |-> now + ticks[1] + ticks[2] + ticks[3]]

\* mutant of EpisodeOutcome: execution_time is patched with end_time, the
\* start is not subtracted
EpisodeOutcomeNoSubtraction(th, res, uc, task, exec, fault, now, ticks) ==
    IF fault = "generate"
    THEN [raised |-> TRUE, text |-> FaultText(fault), task_history |-> th,
          results |-> res, uuid_counter |-> uc, task |-> None, result |-> None,
          clock |-> now]
    ELSE IF fault = "execute"
    THEN [raised |-> TRUE, text |-> FaultText(fault),
          task_history |-> Append(th, task), results |-> res,
          uuid_counter |-> uc + 1, task |-> Some(task), result |-> None,
          clock |-> now + ticks[1]]
    ELSE IF exec.raised
    THEN [raised |-> TRUE, text |-> exec.text,
          task_history |-> Append(th, task), results |-> res,
          uuid_counter |-> uc + 1, task |-> Some(task), result |-> None,
          clock |-> now + ticks[1] + ticks[2]]
    ELSE [raised |-> FALSE, text |-> <<>>,
          task_history |-> Append(th, task),
          results |-> Append(res, [exec.result[1] EXCEPT
                             !.execution_time = now + ticks[1] + ticks[2] + ticks[3]]),
          uuid_counter |-> uc + 1, task |-> Some(task),
          result |-> Some([exec.result[1] EXCEPT
                             !.execution_time = now + ticks[1] + ticks[2] + ticks[3]]),
          clock |-> now + ticks[1] + ticks[2] + ticks[3]]

\* run_episode, entered at time `now`, after generate_task returned `task` and
\* execute_task ended as `exec`; ticks[1] seconds pass before execute_task starts
\* its clock, ticks[2] while it runs and ticks[3] before run_episode reads the
\* clock again. The result's execution_time is overwritten with the span
\* run_episode measured, it is stored and returned; or the exception goes on.
EpisodeOutcome(th, res, uc, task, exec, fault, now, ticks) ==
    IF fault = "generate"
    THEN [raised |-> TRUE, text |-> FaultText(fault), task_history |-> th,
          results |-> res, uuid_counter |-> uc, task |-> None, result |-> None,
          clock |-> now]
    ELSE IF fault = "execute"
    THEN [raised |-> TRUE, text |-> FaultText(fault),
          task_history |-> Append(th, task), results |-> res,
          uuid_counter |-> uc + 1, task |-> Some(task), result |-> None,
          clock |-> now + ticks[1]]
    ELSE IF exec.raised
    THEN [raised |-> TRUE, text |-> exec.text,
          task_history |-> Append(th, task), results |-> res,
          uuid_counter |-> uc + 1, task |-> Some(task), result |-> None,
          clock |-> now + ticks[1] + ticks[2]]
    ELSE [raised |-> FALSE, text |-> <<>>,
          task_history |-> Append(th, task),
          results |-> Append(res, [exec.result[1] EXCEPT
                             !.execution_time = ticks[1] + ticks[2] + ticks[3]]),
          uuid_counter |-> uc + 1, task |-> Some(task),
          result |-> Some([exec.result[1] EXCEPT
                             !.execution_time = ticks[1] + ticks[2] + ticks[3]]),
          clock |-> now + ticks[1] + ticks[2] + ticks[3]]

\* run_episode's execute step on the task just generated
EpisodeExecute(th, res, uc, ex, task, env, fault, now, ticks) ==
    EpisodeOutcome(th, res, uc, task,
                   ExecuteTask(ex, task, env, now + ticks[1], now + ticks[1] + ticks[2]),
                   fault, now, ticks)

\* run_episode on generator history th, result history res and uc ids drawn
RunEpisode(th, res, uc, ex, draw, env, fault, now, ticks) ==
    EpisodeExecute(th, res, uc, ex, GenerateTask(Uuid4(uc + 1), draw), env, fault,
                   now, ticks)

\* time.time(): a float, seconds since the epoch
Timestamp(t) == [timestamp |-> t]

\* mutant of FailedResult: episodes numbered from 0
FailedResultZeroBased(k, text, start_time, end_time) ==
    [task_id        |-> "episode_" \o ToString(k - 1) \o "_failed",
     task_name      |-> "Episode " \o ToString(k - 1),
     success        |-> FALSE,
     execution_time |-> 0,
     start_time     |-> Timestamp(start_time),
     end_time       |-> Timestamp(end_time),
     error_message  |-> Some(text),
     metrics        |-> None]

\* the failed_result built by the except clause of run_multiple_episodes;
\* start_time and end_time are two time.time() readings, not datetimes
FailedResult(k, text, start_time, end_time) ==
    TaskResult("episode_" \o ToString(k) \o "_failed", "Episode " \o ToString(k),
               FALSE, 0, Timestamp(start_time), Timestamp(end_time), Some(text), None)

\* mutant of LoopDone: range(1, num_episodes), one episode short
LoopDoneOneShort(ep, n) == ep >= n

\* range(1, num_episodes + 1) is exhausted
LoopDone(ep, n) == ep > n

\* orchestrator.run_episode(), called on its own
RunEpisodeStep(Draws, EnvSet, Ticks) ==
    /\ pc = "idle"
    /\ Len(task_history) < MaxTasks
    /\ \E draw \in Draws, env \in EnvSet, fault \in Faults, ticks \in Ticks :
          \E r \in {RunEpisode(task_history, results, uuid_counter, executor,
                                draw, env, fault, clock, ticks)} :
              /\ task_history' = r.task_history
              /\ results' = r.results
              /\ uuid_counter' = r.uuid_counter
              /\ clock' = r.clock
              /\ episode_ret' = Some([raised |-> r.raised, text |-> r.text,
                                      result |-> r.result, task |-> r.task])
    /\ UNCHANGED service_vars
    /\ UNCHANGED <<executor_results, executor, pc, num_episodes, episode,
                   batch_results, sleeps, batch_log, batch_ret, last_task, last_env,
                   last_exec, stats>>

\* orchestrator.run_multiple_episodes(n): entry, up to the first loop test
RunMultipleEpisodesCall ==
    /\ pc = "idle"
    /\ \E n \in 0..MaxBatch :
          /\ Len(task_history) + n <= MaxTasks
          /\ num_episodes' = n
    /\ pc' = "loop"
    /\ episode' = 1
    /\ batch_results' = <<>>
    /\ sleeps' = <<>>
    /\ batch_log' = <<>>
    /\ batch_ret' = None
    /\ UNCHANGED service_vars
    /\ UNCHANGED <<results, task_history, executor_results, executor, uuid_counter,
                   clock, episode_ret, last_task, last_env, last_exec, stats>>

\* one iteration of the loop: the try block up to the sleep, or the except clause
BatchEpisodeStep(Draws, EnvSet, Ticks) ==
    /\ pc = "loop"
    /\ ~LoopDone(episode, num_episodes)
    /\ \E draw \in Draws, env \in EnvSet, fault \in Faults, ticks \in Ticks :
          \E r \in {RunEpisode(task_history, results, uuid_counter, executor,
                                draw, env, fault, clock, ticks)} :
              /\ task_history' = r.task_history
              /\ results' = r.results
              /\ uuid_counter' = r.uuid_counter
              /\ episode_ret' = Some([raised |-> r.raised, text |-> r.text,
                                      result |-> r.result, task |-> r.task])
              /\ batch_log' = Append(batch_log, [raised |-> r.raised, text |-> r.text])
              /\ IF r.raised
                 THEN /\ batch_results' =
                            Append(batch_results,
                                   FailedResult(episode, r.text, r.clock,
                                                r.clock + ticks[3]))
                      /\ clock' = r.clock + ticks[3]
                      /\ episode' = episode + 1
                      /\ pc' = "loop"
                 ELSE /\ batch_results' = Append(batch_results, r.result[1])
                      /\ clock' = r.clock
                      /\ IF episode < num_episodes
                         THEN pc' = "sleep" /\ episode' = episode
                         ELSE pc' = "loop" /\ episode' = episode + 1
    /\ UNCHANGED service_vars
    /\ UNCHANGED <<executor_results, executor, num_episodes, sleeps, batch_ret,
                   last_task, last_env, last_exec, stats>>

SleepSeconds == 2

\* time.sleep(2) between two episodes
BatchSleep ==
    /\ pc = "sleep"
    /\ sleeps' = Append(sleeps, episode)
    /\ clock' = clock + SleepSeconds
    /\ episode' = episode + 1
    /\ pc' = "loop"
    /\ UNCHANGED service_vars
    /\ UNCHANGED <<results, task_history, executor_results, executor, uuid_counter,
                   num_episodes, batch_results, batch_log, batch_ret, episode_ret,
                   last_task, last_env, last_exec, stats>>

\* the loop is exhausted: return results
BatchReturn ==
    /\ pc = "loop"
    /\ LoopDone(episode, num_episodes)
    /\ batch_ret' = Some(batch_results)
    /\ pc' = "idle"
    /\ UNCHANGED service_vars
    /\ UNCHANGED <<results, task_history, executor_results, executor, uuid_counter,
                   clock, num_episodes, episode, batch_results, sleeps, batch_log,
                   episode_ret, last_task, last_env, last_exec, stats>>

\* BaseAgent.reset: self.results.clear()
Reset(agent_results) == <<>>

\* orchestrator.reset_all_agents(): reset() of the orchestrator, the generator
\* and the executor; TaskGenerator inherits BaseAgent.reset, which clears the
\* generator's (unused) results list and leaves task_history alone
ResetAllAgents ==
    /\ pc = "idle"
    /\ results' = Reset(results)
    /\ executor_results' = Reset(executor_results)
    /\ UNCHANGED service_vars
    /\ UNCHANGED <<task_history, executor, uuid_counter, clock, pc, num_episodes,
                   episode, batch_results, sleeps, batch_log, batch_ret, episode_ret,
                   last_task, last_env, last_exec, stats>>

\* seconds that pass between the clock readings of one episode of Spec
EpisodeTicks == {<<0, 0, 0>>}

RunEpisodeCall == RunEpisodeStep(EpisodeDraws, EpisodeEnvs, EpisodeTicks)

BatchEpisode == BatchEpisodeStep(EpisodeDraws, EpisodeEnvs, EpisodeTicks)

(***************************************************************************)
(* The orchestrator with a clock that advances during an episode           *)
(***************************************************************************)
\* The most the clock advances between two readings that have only in-memory
\* statements and logger calls between them (run_episode's start reading and
\* execute_task's, execute_task's end reading and run_episode's, the two
\* readings inside the failed_result constructor call).
Granule == 1

\* the most the clock advances while execute_task's try block runs
MaxRun == 3

TimedTicks ==
    {<<before, run, after>> :
        before \in {0, Granule}, run \in {0, MaxRun}, after \in {0, Granule}}

TimedDraws == {d \in EpisodeDraws : d.template = 1 /\ d.hints.priority = 1}

\* episodes start while the clock is below MaxClock
MaxClock == 5

TimedRunEpisode ==
    /\ clock < MaxClock
    /\ RunEpisodeStep(TimedDraws, EpisodeEnvs, TimedTicks)

TimedBatchEpisode ==
    /\ clock < MaxClock
    /\ BatchEpisodeStep(TimedDraws, EpisodeEnvs, TimedTicks)

NextTimed ==
    \/ TimedRunEpisode
    \/ RunMultipleEpisodesCall
    \/ TimedBatchEpisode
    \/ BatchSleep
    \/ BatchReturn

SpecTimed == Init /\ [][NextTimed]_vars

(***************************************************************************)
(* BaseAgent.get_statistics                                                *)
(***************************************************************************)
\* a / b on numbers (true division): the fraction, not reduced
Div(a, b) == [num |-> a, den |-> b]

\* sum(1 for r in rs if r.success)
CountSuccesses(rs) == Cardinality({i \in 1..Len(rs) : rs[i].success})

\* sum(execution_times)
RECURSIVE SumExecutionTimes(_)
SumExecutionTimes(rs) ==
    IF rs = <<>> THEN 0 ELSE Head(rs).execution_time + SumExecutionTimes(Tail(rs))

\* set(r.task_name for r in self.results)
TaskNames(rs) == {rs[i].task_name : i \in 1..Len(rs)}

\* [r for r in self.results if r.task_name == task_name]
ResultsNamed(rs, task_name) ==
    LET Named(r) == r.task_name = task_name IN SelectSeq(rs, Named)

\* mutant of IsFlaky: successes < len(task_results) without the lower bound
IsFlakyNoLowerBound(task_results) ==
    /\ Len(task_results) > 1
    /\ CountSuccesses(task_results) < Len(task_results)

\* the body of the flakiness loop: the name counts when it has more than one
\* result and 0 < successes < len(task_results)
IsFlaky(task_results) ==
    /\ Len(task_results) > 1
    /\ 0 < CountSuccesses(task_results)
    /\ CountSuccesses(task_results) < Len(task_results)

FlakyTasks(rs) ==
    Cardinality({task_name \in TaskNames(rs) : IsFlaky(ResultsNamed(rs, task_name))})

\* mutant of GetStatistics: no early return on an empty history
GetStatisticsNoEarlyReturn(rs) ==
    [total_tasks      |-> Len(rs),
     successful_tasks |-> CountSuccesses(rs),
     failed_tasks     |-> Len(rs) - CountSuccesses(rs),
     success_rate     |-> IF Len(rs) > 0 THEN Div(CountSuccesses(rs), Len(rs))
                          ELSE Div(0, 1),
     avg_time         |-> IF Len(rs) > 0 THEN Div(SumExecutionTimes(rs), Len(rs))
                          ELSE Div(0, 1),
     flaky_tasks      |-> FlakyTasks(rs),
     flakiness_rate   |-> IF TaskNames(rs) # {}
                          THEN Div(FlakyTasks(rs), Cardinality(TaskNames(rs)))
                          ELSE Div(0, 1)]

GetStatistics(rs) ==
    IF rs = <<>> THEN EmptyDict
    ELSE LET total_tasks == Len(rs)
             successful_tasks == CountSuccesses(rs)
             failed_tasks == total_tasks - successful_tasks
         IN  [total_tasks      |-> total_tasks,
              successful_tasks |-> successful_tasks,
              failed_tasks     |-> failed_tasks,
              success_rate     |-> IF total_tasks > 0
                                   THEN Div(successful_tasks, total_tasks)
                                   ELSE Div(0, 1),
              avg_time         |-> Div(SumExecutionTimes(rs), Len(rs)),
              flaky_tasks      |-> FlakyTasks(rs),
              flakiness_rate   |-> IF TaskNames(rs) # {}
                                   THEN Div(FlakyTasks(rs), Cardinality(TaskNames(rs)))
                                   ELSE Div(0, 1)]

\* orchestrator.get_statistics()
GetStatisticsCall ==
    /\ pc = "idle"
    /\ stats' = Some(GetStatistics(results))
    /\ UNCHANGED service_vars
    /\ UNCHANGED <<results, task_history, executor_results, executor, uuid_counter,
                   clock, pc, num_episodes, episode, batch_results, sleeps, batch_log,
                   batch_ret, episode_ret, last_task, last_env, last_exec>>

\* Result histories get_statistics is applied to: every sequence of at most
\* MaxStatsLen results of two catalog tasks, each a success or a failure, as
\* that many episodes leave them behind.
MaxStatsLen == 5

StatsSamples == {1, 6} \X BOOLEAN

StatsDraw(template) ==
    [template |-> template, package |-> "com.android.settings",
     hints |-> [priority |-> 1, timeout |-> 30, retry_count |-> 0]]

StatsResult(i, sample) ==
    TaskResult(Uuid4(i), TaskTemplates[sample[1]].name, sample[2],
               IF sample[2] THEN 1 ELSE 2, FromTimestamp(0), FromTimestamp(0),
               IF sample[2] THEN None ELSE Some(<<"Failed", "to", "open", "app:">>),
               Some(EmptyDict))

InitStats ==
    /\ \E n \in 0..MaxStatsLen :
          \E h \in [1..n -> StatsSamples] :
              /\ results = [i \in 1..n |-> StatsResult(i, h[i])]
              /\ task_history = [i \in 1..n |-> GenerateTask(Uuid4(i), StatsDraw(h[i][1]))]
              /\ uuid_counter = n
    /\ executor_results = <<>>
    /\ executor = NewExecutor(EmptyDict)
    /\ clock = 0
    /\ pc = "idle"
    /\ num_episodes = 0
    /\ episode = 0
    /\ batch_results = <<>>
    /\ sleeps = <<>>
    /\ batch_log = <<>>
    /\ batch_ret = None
    /\ episode_ret = None
    /\ last_task = None
    /\ last_env = None
    /\ last_exec = None
    /\ stats = None
    /\ InitService

NextStats == GetStatisticsCall

SpecStats == InitStats /\ [][NextStats]_vars

Next ==
    \/ RunEpisodeCall
    \/ RunMultipleEpisodesCall
    \/ BatchEpisode
    \/ BatchSleep
    \/ BatchReturn
    \/ ResetAllAgents

Spec == Init /\ [][Next]_vars

(***************************************************************************)
(* TaskGenerator on its own: generate_task and get_task_statistics         *)
(***************************************************************************)
\* the loop of get_task_statistics: task_types[task_type] starts at 0 and is
\* incremented once per task of the history
RECURSIVE CountTaskTypes(_, _)
CountTaskTypes(history, task_types) ==
    IF history = <<>> THEN task_types
    ELSE LET task_type == Head(history).type
             started == IF task_type \notin DOMAIN task_types
                        THEN task_types @@ (task_type :> 0)
                        ELSE task_types
         IN  CountTaskTypes(Tail(history), [started EXCEPT ![task_type] = @ + 1])

\* mutant of GetTaskStatistics: total_generated counts the distinct names
GetTaskStatisticsCountsNames(history) ==
    IF history = <<>> THEN EmptyDict
    ELSE [total_generated |-> Cardinality({history[i].name : i \in 1..Len(history)}),
          task_types      |-> CountTaskTypes(history, EmptyDict),
          unique_tasks    |-> Cardinality({history[i].name : i \in 1..Len(history)})]

\* get_task_statistics
GetTaskStatistics(history) ==
    IF history = <<>> THEN EmptyDict
    ELSE [total_generated |-> Len(history),
          task_types      |-> CountTaskTypes(history, EmptyDict),
          unique_tasks    |-> Cardinality({history[i].name : i \in 1..Len(history)})]

\* the dict built by get_comprehensive_statistics from the three agents' stats
ComprehensiveStats(orchestrator_stats, generator_stats, executor_stats) ==
    [orchestrator   |-> orchestrator_stats,
     task_generator |-> generator_stats,
     task_executor  |-> executor_stats,
     summary        |->
        [total_episodes         |-> Get(orchestrator_stats, "total_tasks", 0),
         overall_success_rate   |-> Get(orchestrator_stats, "success_rate", 0),
         average_execution_time |-> Get(orchestrator_stats, "avg_time", 0),
         flakiness_rate         |-> Get(orchestrator_stats, "flakiness_rate", 0)]]

\* orchestrator.get_comprehensive_statistics()
GetComprehensiveStatistics(res, th, executor_res) ==
    ComprehensiveStats(GetStatistics(res), GetTaskStatistics(th),
                       GetStatistics(executor_res))

\* mutant of GetAgentStatus: the executor is credited with the episodes
GetAgentStatusCountsEpisodes(res, th, executor_res) ==
    [orchestrator   |-> [name |-> "Orchestrator", status |-> "active",
                         episodes_run |-> Len(res)],
     task_generator |-> [name |-> "TaskGenerator", status |-> "active",
                         tasks_generated |-> Len(th)],
     task_executor  |-> [name |-> "TaskExecutor", status |-> "active",
                         tasks_executed |-> Len(res)]]

\* orchestrator.get_agent_status()
GetAgentStatus(res, th, executor_res) ==
    [orchestrator   |-> [name |-> "Orchestrator", status |-> "active",
                         episodes_run |-> Len(res)],
     task_generator |-> [name |-> "TaskGenerator", status |-> "active",
                         tasks_generated |-> Len(th)],
     task_executor  |-> [name |-> "TaskExecutor", status |-> "active",
                         tasks_executed |-> Len(executor_res)]]

\* generate_task calls in one run
MaxGenerated == 3

\* The draws of the generator runs: every template with the low hints, the
\* first template (the one whose package_name is redrawn) also with another
\* package and the high hints.
GeneratorDraws ==
    {d \in RandomDraws :
        \/ d.package = "com.android.settings" /\ d.hints.priority = 1
        \/ d.template = 1 /\ d.package = "com.whatsapp" /\ d.hints.priority = 5}

\* task_generator.generate_task()
GenerateTaskCall ==
    /\ pc = "idle"
    /\ Len(task_history) < MaxGenerated
    /\ \E draw \in GeneratorDraws :
          task_history' = Append(task_history, GenerateTask(Uuid4(uuid_counter + 1), draw))
    /\ uuid_counter' = uuid_counter + 1
    /\ UNCHANGED service_vars
    /\ UNCHANGED <<results, executor_results, executor, clock, pc, num_episodes,
                   episode, batch_results, sleeps, batch_log, batch_ret, episode_ret,
                   last_task, last_env, last_exec, stats>>

\* task_generator.get_task_statistics()
GetTaskStatisticsCall ==
    /\ pc = "idle"
    /\ task_stats' = Some(GetTaskStatistics(task_history))
    /\ UNCHANGED <<generator_config, manager, cloud_log, local_log, time_series, sink_ret, backlog,
                   current, responses, wall>>
    /\ UNCHANGED pipeline_vars

NextGenerator == GenerateTaskCall \/ GetTaskStatisticsCall

\* mutant of GenerateCustomTask: the id is derived from the task type
GenerateCustomTaskTypeId(task_id, task_type, parameters) ==
    [id               |-> "custom-" \o task_type,
     name             |-> "Custom_" \o task_type,
     type             |-> task_type,
     description      |-> "Custom " \o task_type \o " task",
     parameters       |-> parameters,
     expected_outcome |-> "Task should complete successfully",
     priority         |-> 3,
     timeout          |-> 60,
     retry_count      |-> 1]

\* generate_custom_task: the task built from the arguments
GenerateCustomTask(task_id, task_type, parameters) ==
    [id               |-> task_id,
     name             |-> "Custom_" \o task_type,
     type             |-> task_type,
     description      |-> "Custom " \o task_type \o " task",
     parameters       |-> parameters,
     expected_outcome |-> "Task should complete successfully",
     priority         |-> 3,
     timeout          |-> 60,
     retry_count      |-> 1]

\* arguments of the generate_custom_task calls
CustomTaskTypes == {"navigation", "demo"}

CustomParameters == {EmptyDict, [package_name |-> "com.example.testapp"]}

\* task_generator.generate_custom_task(task_type, parameters)
GenerateCustomTaskCall ==
    /\ pc = "idle"
    /\ Len(task_history) < MaxGenerated
    /\ \E task_type \in CustomTaskTypes, parameters \in CustomParameters :
          task_history' =
              Append(task_history,
                     GenerateCustomTask(Uuid4(uuid_counter + 1), task_type, parameters))
    /\ uuid_counter' = uuid_counter + 1
    /\ UNCHANGED service_vars
    /\ UNCHANGED <<results, executor_results, executor, clock, pc, num_episodes,
                   episode, batch_results, sleeps, batch_log, batch_ret, episode_ret,
                   last_task, last_env, last_exec, stats>>

NextCustomGenerator == GenerateTaskCall \/ GenerateCustomTaskCall

SpecCustomGenerator == Init /\ [][NextCustomGenerator]_vars

SpecGenerator == Init /\ [][NextGenerator]_vars

(***************************************************************************)
(* ObservabilityManager                                                    *)
(*                                                                         *)
(* The manager's attributes are what __init__ left behind: whether the     *)
(* Google Cloud libraries were importable and which clients exist.  The    *)
(* sink is the triple of places an entry can end up in, with `raised`      *)
(* telling whether the call ended with an exception.                       *)
(***************************************************************************)
\* __init__ with _setup_google_cloud / _setup_fallback: the clients are created
\* in the order logging, trace, monitoring; `clients` of them exist when the
\* first exception (if any) sends the constructor to the fallback
NewObservabilityManager(project_id, available, clients) ==
    [project_id             |-> project_id,
     service_name           |-> "androidworld-worker",
     trace_id               |-> None,
     span_id                |-> None,
     google_cloud_available |-> available,
     logging_client         |-> available /\ clients >= 1,
     trace_client           |-> available /\ clients >= 2,
     monitoring_client      |-> available /\ clients >= 3]

\* json.dumps(x): the text of x
JsonDumps(x) == [json |-> x]

\* datetime.utcnow().isoformat()
IsoFormat(t) == [isoformat |-> t]

\* self.logger.info / self.logger.error
LoggerRecord(level, message) == [level |-> level, message |-> message]

\* mutant of WriteLog: no except clause around the cloud write
WriteLogNoFallback(m, sink, log_entry, backend) ==
    IF m.google_cloud_available /\ m.logging_client
    THEN IF backend.logging = "ok"
         THEN [sink EXCEPT !.cloud_log =
                  Append(@, [log_name     |-> <<"projects", m.project_id, "logs",
                                                m.service_name>>,
                             severity     |-> log_entry.severity,
                             text_payload |-> JsonDumps(log_entry),
                             labels       |-> log_entry.labels])]
         ELSE [sink EXCEPT !.raised = TRUE]
    ELSE [sink EXCEPT !.local_log =
             Append(@, LoggerRecord("INFO", JsonDumps(log_entry)))]

\* _write_log: to Google Cloud Logging when its client exists, to the local
\* logger otherwise and when the cloud write raises
WriteLog(m, sink, log_entry, backend) ==
    IF m.google_cloud_available /\ m.logging_client
    THEN IF backend.logging = "ok"
         THEN [sink EXCEPT !.cloud_log =
                  Append(@, [log_name     |-> <<"projects", m.project_id, "logs",
                                                m.service_name>>,
                             severity     |-> log_entry.severity,
                             text_payload |-> JsonDumps(log_entry),
                             labels       |-> log_entry.labels])]
         ELSE [sink EXCEPT !.local_log =
                  @ \o <<LoggerRecord("ERROR",
                                      <<"Failed to write to Google Cloud Logging:",
                                        backend.text>>),
                         LoggerRecord("INFO", JsonDumps(log_entry))>>]
    ELSE [sink EXCEPT !.local_log =
             Append(@, LoggerRecord("INFO", JsonDumps(log_entry)))]

\* _record_task_metrics: two time series in one create_time_series call; a
\* missing monitoring client (AttributeError) or a failing call is logged
RecordTaskMetrics(m, sink, task_type, duration, success, now, backend) ==
    LET Series(type, value) ==
            [metric   |-> [type   |-> type,
                           labels |-> [task_type |-> task_type,
                                       service   |-> m.service_name]],
             resource |-> [type   |-> "gce_instance",
                           labels |-> [project_id  |-> m.project_id,
                                       instance_id |-> "androidworld-worker"]],
             points   |-> <<[end_time |-> now, double_value |-> value]>>]
    IN  IF ~m.monitoring_client
        THEN [sink EXCEPT !.local_log =
                 Append(@, LoggerRecord("ERROR",
                     <<"Failed to record metrics:",
                       "'ObservabilityManager' object has no attribute 'monitoring_client'">>))]
        ELSE IF backend.monitoring = "ok"
        THEN [sink EXCEPT !.time_series =
                 @ \o <<Series("custom.googleapis.com/androidworld/task_duration",
                               duration * 1000),
                        Series("custom.googleapis.com/androidworld/task_success_rate",
                               IF success THEN 1 ELSE 0)>>]
        ELSE [sink EXCEPT !.local_log =
                 Append(@, LoggerRecord("ERROR",
                                        <<"Failed to record metrics:", backend.text>>))]

TaskStartEntry(m, task_id, task_type, task_data, now) ==
    [severity  |-> "INFO",
     message   |-> <<"Task started:", task_type>>,
     task_id   |-> task_id,
     task_type |-> task_type,
     task_data |-> task_data,
     timestamp |-> IsoFormat(now),
     trace_id  |-> m.trace_id,
     span_id   |-> m.span_id,
     labels    |-> [service |-> m.service_name, task_type |-> task_type,
                    environment |-> "production"]]

LogTaskStart(m, sink, task_id, task_type, task_data, now, backend) ==
    WriteLog(m, sink, TaskStartEntry(m, task_id, task_type, task_data, now), backend)

TaskCompletionEntry(m, task_id, task_type, result, duration, success, now) ==
    [severity  |-> IF success THEN "INFO" ELSE "ERROR",
     message   |-> <<"Task completed:", task_type>>,
     task_id   |-> task_id,
     task_type |-> task_type,
     result    |-> result,
     duration  |-> duration,
     success   |-> success,
     timestamp |-> IsoFormat(now),
     trace_id  |-> m.trace_id,
     span_id   |-> m.span_id,
     labels    |-> [service |-> m.service_name, task_type |-> task_type,
                    environment |-> "production"]]

\* the second half of log_task_completion, after _write_log returned `written`
CompletionMetrics(m, written, task_type, duration, success, now, backend) ==
    IF written.raised \/ ~m.google_cloud_available
    THEN written
    ELSE RecordTaskMetrics(m, written, task_type, duration, success, now, backend)

LogTaskCompletion(m, sink, task_id, task_type, result, duration, success, now, backend) ==
    CompletionMetrics(m,
        WriteLog(m, sink,
                 TaskCompletionEntry(m, task_id, task_type, result, duration, success, now),
                 backend),
        task_type, duration, success, now, backend)

ErrorEntry(m, error, context, now) ==
    [severity   |-> "ERROR",
     message    |-> error.text,
     error_type |-> error.cls,
     context    |-> context,
     timestamp  |-> IsoFormat(now),
     trace_id   |-> m.trace_id,
     span_id    |-> m.span_id,
     labels     |-> [service |-> m.service_name, error_type |-> error.cls,
                     environment |-> "production"]]

LogError(m, sink, error, context, now, backend) ==
    WriteLog(m, sink, ErrorEntry(m, error, context, now), backend)

\* get_health_status
GetHealthStatus(m, now) ==
    [status        |-> "healthy",
     timestamp     |-> IsoFormat(now),
     service       |-> m.service_name,
     project_id    |-> m.project_id,
     observability |-> [google_cloud_available  |-> m.google_cloud_available,
                        opentelemetry_available |-> FALSE,
                        logging_available       |-> m.logging_client,
                        monitoring_available    |-> m.monitoring_client]]

\* What the two cloud backends do during one call of the sink
BackendError == <<"503", "Service", "Unavailable">>

Backends ==
    [logging : {"ok", "fail"}, monitoring : {"ok", "fail"}, text : {BackendError}]

\* the managers __init__ can leave behind
Managers ==
    {NewObservabilityManager("demo-project", FALSE, 0)}
    \cup {NewObservabilityManager("demo-project", TRUE, clients) : clients \in 0..3}

\* the sink as the variables hold it
Sink == [cloud_log |-> cloud_log, local_log |-> local_log,
         time_series |-> time_series, raised |-> FALSE]

\* number of direct calls of the sink in one run
MaxSinkCalls == 2

\* direct calls made so far
SinkCalls == IF sink_ret = None THEN 0 ELSE sink_ret[1].call.n

SinkTaskTypes == {"demo", "click_button"}

SinkPayloads == {EmptyDict, [task_id |-> "t1", task_type |-> "demo"]}

SinkErrors ==
    {[cls |-> "ValueError", text |-> <<"invalid", "literal", "for", "int()">>]}

\* the call ended as `after`
SinkStep(after, call) ==
    /\ cloud_log' = after.cloud_log
    /\ local_log' = after.local_log
    /\ time_series' = after.time_series
    /\ sink_ret' = Some([call |-> call, raised |-> after.raised])
    /\ wall' = wall + 1
    /\ UNCHANGED <<generator_config, task_stats, manager, backlog, current, responses>>
    /\ UNCHANGED pipeline_vars

LogTaskStartCall ==
    /\ manager # None
    /\ SinkCalls < MaxSinkCalls
    /\ \E task_type \in SinkTaskTypes, task_data \in SinkPayloads, backend \in Backends :
          \E after \in {LogTaskStart(manager[1], Sink, "t1", task_type, task_data,
                                     wall, backend)} :
              SinkStep(after, [op |-> "log_task_start", backend |-> backend,
                               entry |-> TaskStartEntry(manager[1], "t1", task_type,
                                                        task_data, wall),
                               n |-> SinkCalls + 1])

LogTaskCompletionCall ==
    /\ manager # None
    /\ SinkCalls < MaxSinkCalls
    /\ \E task_type \in SinkTaskTypes, success \in BOOLEAN, backend \in Backends :
          \E after \in {LogTaskCompletion(manager[1], Sink, "t1", task_type,
                                          [success |-> success], 1, success, wall,
                                          backend)} :
              SinkStep(after, [op |-> "log_task_completion", backend |-> backend,
                               entry |-> TaskCompletionEntry(manager[1], "t1", task_type,
                                                             [success |-> success], 1,
                                                             success, wall),
                               n |-> SinkCalls + 1])

LogErrorCall ==
    /\ manager # None
    /\ SinkCalls < MaxSinkCalls
    /\ \E error \in SinkErrors, backend \in Backends :
          \E after \in {LogError(manager[1], Sink, error, [endpoint |-> "/task"],
                                 wall, backend)} :
              SinkStep(after, [op |-> "log_error", backend |-> backend,
                               entry |-> ErrorEntry(manager[1], error,
                                                    [endpoint |-> "/task"], wall),
                               n |-> SinkCalls + 1])

\* a constructed ObservabilityManager, nothing logged yet
InitSink ==
    /\ manager \in {Some(m) : m \in Managers}
    /\ task_stats = None
    /\ generator_config = EmptyDict
    /\ cloud_log = <<>>
    /\ local_log = <<>>
    /\ time_series = <<>>
    /\ sink_ret = None
    /\ backlog = <<>>
    /\ current = None
    /\ responses = <<>>
    /\ wall = 0
    /\ results = <<>>
    /\ task_history = <<>>
    /\ executor_results = <<>>
    /\ executor = NewExecutor(EmptyDict)
    /\ uuid_counter = 0
    /\ clock = 0
    /\ pc = "idle"
    /\ num_episodes = 0
    /\ episode = 0
    /\ batch_results = <<>>
    /\ sleeps = <<>>
    /\ batch_log = <<>>
    /\ batch_ret = None
    /\ episode_ret = None
    /\ last_task = None
    /\ last_env = None
    /\ last_exec = None
    /\ stats = None

NextSink == LogTaskStartCall \/ LogTaskCompletionCall \/ LogErrorCall

SpecSink == InitSink /\ [][NextSink]_vars

(***************************************************************************)
(* HTTP front door: AndroidWorldHandler behind an http.server.HTTPServer   *)
(*                                                                         *)
(* A request body is what the client sent: bytes that decode as UTF-8 or   *)
(* not, and text that parses as JSON (to an object, an array or a scalar)  *)
(* or not.  Time is counted in tenths of a second.                         *)
(***************************************************************************)
JsonObject(fields) == [type |-> "object", fields |-> fields]

JsonArray == [type |-> "list", fields |-> EmptyDict]

JsonScalar == [type |-> "int", fields |-> EmptyDict]

Body(utf8, json) == [utf8 |-> utf8, json |-> json]

\* rfile.read(0): no bytes
EmptyBody == Body(TRUE, None)

Bodies ==
    {Body(TRUE, Some(JsonObject([task_id |-> "t1", task_type |-> "demo"]))),
     Body(TRUE, Some(JsonObject([task_id |-> "t1"]))),
     Body(TRUE, Some(JsonObject(EmptyDict))),
     Body(TRUE, Some(JsonArray)),
     Body(TRUE, Some(JsonScalar)),
     Body(TRUE, None),
     Body(FALSE, None)}

Request(method, path, content_length, body) ==
    [method |-> method, path |-> path, content_length |-> content_length, body |-> body]

GetPaths == {"/health", "/ready", "/metrics", "/status", "/trace"}

\* Requests clients send: every GET endpoint and an unknown path, POST /task
\* with every body, with an absent or a non-numeric Content-Length header, and
\* POST to another path.
Requests ==
    {Request("GET", path, "absent", EmptyBody) : path \in GetPaths \cup {"/nonexistent"}}
    \cup {Request("POST", "/task", "ok", body) : body \in Bodies}
    \cup {Request("POST", "/task", cl,
                   Body(TRUE, Some(JsonObject([task_id |-> "t1", task_type |-> "demo"])))) :
              cl \in {"absent", "bad"}}
    \cup {Request("POST", "/health", "ok", Body(TRUE, Some(JsonObject(EmptyDict))))}

\* _send_json_response
SendJsonResponse(data, status_code) ==
    [status       |-> status_code,
     content_type |-> "application/json",
     allow_origin |-> "*",
     body         |-> JsonDumps(data)]

\* _send_text_response
SendTextResponse(data, status_code, content_type) ==
    [status       |-> status_code,
     content_type |-> content_type,
     allow_origin |-> "*",
     body         |-> data]

\* _collect_metrics
CollectMetrics ==
    <<"# HELP androidworld_tasks_total Total number of tasks processed",
      "# TYPE androidworld_tasks_total counter",
      "androidworld_tasks_total{service=\"androidworld-worker\"} 0",
      "# HELP androidworld_task_duration_seconds Task execution duration",
      "# TYPE androidworld_task_duration_seconds histogram",
      "androidworld_task_duration_seconds{service=\"androidworld-worker\"} 0">>

\* How a handler step ends: a response was written, or the handler sleeps
\* inside _execute_task, or an exception left the handler (no response).
Responded(sink, response) == [sink |-> sink, response |-> Some(response), sleeping |-> FALSE]

Sleeping(sink) == [sink |-> sink, response |-> None, sleeping |-> TRUE]

Dropped(sink) == [sink |-> sink, response |-> None, sleeping |-> FALSE]

\* mutant of HandleHealth: unhealthy without an observability manager
HandleHealthNeedsManager(m, now) ==
    IF m # None THEN SendJsonResponse(GetHealthStatus(m[1], now), 200)
    ELSE SendJsonResponse([status |-> "unhealthy", timestamp |-> now,
                           service |-> "androidworld-worker"], 503)

\* _handle_health
HandleHealth(m, now) ==
    SendJsonResponse(IF m # None THEN GetHealthStatus(m[1], now)
                     ELSE [status |-> "healthy", timestamp |-> now,
                           service |-> "androidworld-worker"],
                     200)

\* _check_readiness
CheckReadiness == TRUE

\* _handle_ready
HandleReady ==
    IF CheckReadiness THEN SendJsonResponse([status |-> "ready"], 200)
    ELSE SendJsonResponse([status |-> "not_ready"], 503)

\* _handle_status; the server was started at time 0
HandleStatus(now) ==
    SendJsonResponse([service |-> "androidworld-worker", version |-> "1.0.0",
                      uptime |-> now - 0, environment |-> "production",
                      project_id |-> "unknown", timestamp |-> now],
                     200)

\* _handle_trace
HandleTrace(m) ==
    SendJsonResponse([trace_id |-> IF m # None THEN m[1].trace_id ELSE None,
                      span_id  |-> IF m # None THEN m[1].span_id ELSE None,
                      service  |-> "androidworld-worker"],
                     200)

\* _handle_not_found
HandleNotFound == SendJsonResponse([error |-> <<"Not found">>], 404)

\* do_GET: no handler of a GET endpoint raises
DoGet(m, sink, req, now) ==
    Responded(sink,
              IF req.path = "/health" THEN HandleHealth(m, now)
              ELSE IF req.path = "/ready" THEN HandleReady
              ELSE IF req.path = "/metrics"
                   THEN SendTextResponse(CollectMetrics, 200, "text/plain")
              ELSE IF req.path = "/status" THEN HandleStatus(now)
              ELSE IF req.path = "/trace" THEN HandleTrace(m)
              ELSE HandleNotFound)

\* _handle_error, reached from the except clause of do_GET / do_POST; `logged`
\* is the sink after log_error
HandleErrorSend(logged, text) ==
    IF logged.raised THEN Dropped([logged EXCEPT !.raised = FALSE])
    ELSE Responded(logged, SendJsonResponse([error |-> text], 500))

HandleError(m, sink, cls, text, path, now, backend) ==
    HandleErrorSend(IF m # None
                    THEN LogError(m[1], sink, [cls |-> cls, text |-> text],
                                  [endpoint |-> path], now, backend)
                    ELSE sink,
                    text)

\* str(e) of the exceptions the handlers of POST /task meet
BadLengthText == <<"invalid literal for int() with base 10: 'abc'">>

DecodeErrorText ==
    <<"'utf-8' codec can't decode byte 0xff in position 0: invalid start byte">>

NoGetText(type) == <<"'" \o type \o "' object has no attribute 'get'">>

\* except Exception as e: self._send_json_response({"error": str(e)}, 500)
TaskFailed(sink, text) ==
    Responded([sink EXCEPT !.raised = FALSE], SendJsonResponse([error |-> text], 500))

\* the first half of _handle_task's try block once the observability manager
\* took the start event (`logged`): an exception of the sink is answered by
\* the except clause, otherwise _execute_task starts to sleep
TaskStarted(logged) ==
    IF logged.raised THEN TaskFailed(logged, BackendError) ELSE Sleeping(logged)

\* mutant of HandleTaskBody: no start event is logged
HandleTaskBodyNoStart(m, sink, body, now, backend) ==
    IF ~body.utf8 THEN TaskFailed(sink, DecodeErrorText)
    ELSE IF body.json = None
    THEN Responded(sink, SendJsonResponse([error |-> <<"Invalid JSON">>], 400))
    ELSE IF m = None THEN Sleeping(sink)
    ELSE IF body.json[1].type # "object"
    THEN TaskFailed(sink, NoGetText(body.json[1].type))
    ELSE Sleeping(sink)

\* _handle_task up to the time.sleep of _execute_task; the body read is the
\* request's when the Content-Length header gives its length, empty without
\* the header
HandleTaskBody(m, sink, body, now, backend) ==
    IF ~body.utf8 THEN TaskFailed(sink, DecodeErrorText)
    ELSE IF body.json = None
    THEN Responded(sink, SendJsonResponse([error |-> <<"Invalid JSON">>], 400))
    ELSE IF m = None THEN Sleeping(sink)
    ELSE IF body.json[1].type # "object"
    THEN TaskFailed(sink, NoGetText(body.json[1].type))
    ELSE TaskStarted(LogTaskStart(m[1], sink,
                                  Get(body.json[1].fields, "task_id", "unknown"),
                                  Get(body.json[1].fields, "task_type", "unknown"),
                                  body.json[1].fields, now, backend))

\* the body rfile.read(content_length) returns
ReadBody(req) == IF req.content_length = "absent" THEN EmptyBody ELSE req.body

\* do_POST up to the response or the sleep
DoPost(m, sink, req, now, backend) ==
    IF req.path # "/task" THEN Responded(sink, HandleNotFound)
    ELSE IF req.content_length = "bad"
    THEN HandleError(m, sink, "ValueError", BadLengthText, req.path, now, backend)
    ELSE HandleTaskBody(m, sink, ReadBody(req), now, backend)

\* the mapping _execute_task returns
TaskExecuted(fields, start_time, now) ==
    [task_id   |-> IF "task_id" \in DOMAIN fields THEN Some(fields.task_id) ELSE None,
     task_type |-> IF "task_type" \in DOMAIN fields THEN Some(fields.task_type) ELSE None,
     success   |-> TRUE,
     duration  |-> now - start_time,
     result    |-> "Task completed successfully",
     timestamp |-> now]

\* the end of _handle_task's try block: `logged` is the sink after
\* log_task_completion
TaskCompleted(logged, result) ==
    IF logged.raised THEN TaskFailed(logged, BackendError)
    ELSE Responded(logged, SendJsonResponse(result, 200))

\* _handle_task after the time.sleep of _execute_task: the result is built
\* (task_data.get raises on a value that is no object), the completion event
\* is logged and the result is sent
HandleTaskDone(m, sink, body, start_time, now, backend) ==
    IF body.json[1].type # "object"
    THEN TaskFailed(sink, NoGetText(body.json[1].type))
    ELSE IF m = None
    THEN Responded(sink, SendJsonResponse(TaskExecuted(body.json[1].fields,
                                                        start_time, now), 200))
    ELSE TaskCompleted(
             LogTaskCompletion(m[1], sink,
                               Get(body.json[1].fields, "task_id", "unknown"),
                               Get(body.json[1].fields, "task_type", "unknown"),
                               TaskExecuted(body.json[1].fields, start_time, now),
                               now - start_time, TRUE, now, backend),
             TaskExecuted(body.json[1].fields, start_time, now))

\* time.sleep(0.1)
SimulatedDelay == 1

\* requests clients send in one run
MaxRequests == 2

RequestsSent == Len(backlog) + Len(current) + Len(responses)

\* what the cloud backends do while the front door runs
ServerBackends == {b \in Backends : b.logging = b.monitoring}

\* the observability_manager the server is built with
ServerManagers ==
    {None, Some(NewObservabilityManager("demo-project", FALSE, 0)),
     Some(NewObservabilityManager("demo-project", TRUE, 3))}

\* a client connects and sends its request; the connection waits in the
\* listening socket's queue
Connect ==
    /\ RequestsSent < MaxRequests
    /\ \E req \in Requests :
          backlog' = Append(backlog, [id |-> RequestsSent + 1, req |-> req])
    /\ UNCHANGED <<generator_config, task_stats, manager, cloud_log, local_log, time_series, sink_ret,
                   current, responses, wall>>
    /\ UNCHANGED pipeline_vars

\* serve_forever: the single server thread accepts the next connection only
\* when it is not inside a handler
AcceptRequest ==
    /\ current = None
    /\ backlog # <<>>
    /\ current' = Some([id |-> Head(backlog).id, req |-> Head(backlog).req,
                        phase |-> "handle", start_time |-> 0])
    /\ backlog' = Tail(backlog)
    /\ UNCHANGED <<generator_config, task_stats, manager, cloud_log, local_log, time_series, sink_ret,
                   responses, wall>>
    /\ UNCHANGED pipeline_vars

\* the handler step ended as `out`
HandlerStep(out) ==
    /\ cloud_log' = out.sink.cloud_log
    /\ local_log' = out.sink.local_log
    /\ time_series' = out.sink.time_series
    /\ responses' = IF out.response = None THEN responses
                    ELSE Append(responses, [id |-> current[1].id,
                                            req |-> current[1].req,
                                            response |-> out.response[1]])
    /\ current' = IF out.sleeping
                  THEN Some([current[1] EXCEPT !.phase = "sleep", !.start_time = wall])
                  ELSE None
    /\ UNCHANGED <<generator_config, task_stats, manager, sink_ret, backlog>>
    /\ UNCHANGED pipeline_vars

HandleGet ==
    /\ current # None
    /\ current[1].phase = "handle"
    /\ current[1].req.method = "GET"
    /\ \E out \in {DoGet(manager, Sink, current[1].req, wall)} : HandlerStep(out)
    /\ wall' = wall

HandlePost ==
    /\ current # None
    /\ current[1].phase = "handle"
    /\ current[1].req.method = "POST"
    /\ \E backend \in ServerBackends :
          \E out \in {DoPost(manager, Sink, current[1].req, wall, backend)} :
              HandlerStep(out)
    /\ wall' = wall

TaskDelayDone ==
    /\ current # None
    /\ current[1].phase = "sleep"
    /\ wall' = wall + SimulatedDelay
    /\ \E backend \in ServerBackends :
          \E out \in {HandleTaskDone(manager, Sink, ReadBody(current[1].req),
                                      current[1].start_time, wall + SimulatedDelay,
                                      backend)} :
              HandlerStep(out)

\* AndroidWorldServer.start() with or without an observability manager
InitServer ==
    /\ manager \in ServerManagers
    /\ task_stats = None
    /\ generator_config = EmptyDict
    /\ cloud_log = <<>>
    /\ local_log = <<>>
    /\ time_series = <<>>
    /\ sink_ret = None
    /\ backlog = <<>>
    /\ current = None
    /\ responses = <<>>
    /\ wall = 0
    /\ results = <<>>
    /\ task_history = <<>>
    /\ executor_results = <<>>
    /\ executor = NewExecutor(EmptyDict)
    /\ uuid_counter = 0
    /\ clock = 0
    /\ pc = "idle"
    /\ num_episodes = 0
    /\ episode = 0
    /\ batch_results = <<>>
    /\ sleeps = <<>>
    /\ batch_log = <<>>
    /\ batch_ret = None
    /\ episode_ret = None
    /\ last_task = None
    /\ last_env = None
    /\ last_exec = None
    /\ stats = None

ServerStep == AcceptRequest \/ HandleGet \/ HandlePost \/ TaskDelayDone

NextServer == Connect \/ AcceptRequest \/ HandleGet \/ HandlePost \/ TaskDelayDone

SpecServer == InitServer /\ [][NextServer]_vars

\* the server thread keeps running: serve_forever does not stop while a
\* connection waits or a handler is running
FairSpecServer == SpecServer /\ WF_vars(ServerStep)


(***************************************************************************)
(* Claims about execute_task (checked under SpecExec)                      *)
(***************************************************************************)
NamedTypes ==
    {"navigation", "information_gathering", "installation", "removal", "capture",
     "maintenance"}

TypeOf(task) == Get(task, "type", "unknown")

Called == Len(last_exec) = 1

TimedOutWords == <<"timed", "out">>

C8_TimeoutIsFailure ==
    (Called /\ last_exec[1].calls # <<>> /\ last_env[1].bridge.kind = "timeout") =>
        /\ ~last_exec[1].result[1].success
        /\ Len(last_exec[1].result[1].error_message) = 1
        /\ Contains(last_exec[1].result[1].error_message[1], TimedOutWords)

\* C8 witness: the removal handler's bridge command timed out.
C8_Witness ==
    /\ Called
    /\ TypeOf(last_task[1]) = "removal"
    /\ Len(last_exec[1].calls) = 1
    /\ last_env[1].bridge.kind = "timeout"
    /\ last_exec[1].result[1].error_message = Some(<<"Removal", "task", "timed", "out">>)

\* C9: a maintenance task whose parameters have no package_name, or an empty
\* one, fails with a non-empty error_message and no bridge command is invoked.
C9_MaintenanceNeedsPackage ==
    (/\ Called
     /\ TypeOf(last_task[1]) = "maintenance"
     /\ "parameters" \in DOMAIN last_task[1]
     /\ Get(last_task[1].parameters, "package_name", "") = "") =>
        /\ ~last_exec[1].result[1].success
        /\ Len(last_exec[1].result[1].error_message) = 1
        /\ last_exec[1].result[1].error_message[1] # <<>>
        /\ last_exec[1].calls = <<>>

\* C9 witness: the task file was written and the handler refused the task.
C9_Witness ==
    /\ Called
    /\ TypeOf(last_task[1]) = "maintenance"
    /\ "parameters" \in DOMAIN last_task[1]
    /\ "package_name" \notin DOMAIN last_task[1].parameters
    /\ last_exec[1].file # None
    /\ last_exec[1].result[1].error_message = Some(<<"Missing", "package", "name">>)
    /\ last_exec[1].calls = <<>>

\* C10: for navigation, information_gathering, capture, maintenance (with a
\* package_name) and generic/unrecognized tasks whose task file was written,
\* success holds iff the single bridge command completed with exit code 0;
\* a type outside the six named ones runs the generic runner command.
C10_SuccessIffExitZero ==
    (/\ Called
     /\ last_exec[1].file # None
     /\ TypeOf(last_task[1]) \notin {"installation", "removal"}
     /\ TypeOf(last_task[1]) = "maintenance" =>
            /\ "parameters" \in DOMAIN last_task[1]
            /\ Get(last_task[1].parameters, "package_name", "") # "") =>
        /\ Len(last_exec[1].calls) <= 1
        /\ last_exec[1].result[1].success <=>
              /\ Len(last_exec[1].calls) = 1
              /\ last_env[1].bridge.kind = "completed"
              /\ last_env[1].bridge.returncode = 0
        /\ TypeOf(last_task[1]) \notin NamedTypes =>
              /\ Len(last_exec[1].calls) = 1
              /\ last_exec[1].calls[1] =
                    [cmd |-> <<executor.androidworld_runner, "--task",
                               last_task[1].id, "--local">>,
                     timeout |-> 60]

\* C10 witness: a task of an unrecognized type ran the runner, which exited
\* with a non-zero code, and the TaskResult is a failure.
C10_Witness ==
    /\ Called
    /\ TypeOf(last_task[1]) = "demo"
    /\ last_exec[1].file # None
    /\ Len(last_exec[1].calls) = 1
    /\ last_exec[1].calls[1].cmd[1] = "./run.sh"
    /\ last_env[1].bridge.kind = "completed"
    /\ last_env[1].bridge.returncode = 1
    /\ ~last_exec[1].result[1].success

(***************************************************************************)
(* Claims about the orchestrator (checked under Spec and FairSpec)         *)
(***************************************************************************)
FailedId(k) == "episode_" \o ToString(k) \o "_failed"

\* position in the generator's history of the task with this id, 0 if none
PositionOf(task_id) ==
    IF \E p \in 1..Len(task_history) : task_history[p].id = task_id
    THEN CHOOSE p \in 1..Len(task_history) : task_history[p].id = task_id
    ELSE 0

C1_Shape ==
    batch_ret # None =>
        /\ Len(batch_ret[1]) = num_episodes
        /\ Len(batch_log) = num_episodes
        /\ \A i \in 1..Len(batch_ret[1]) :
              /\ batch_ret[1][i].success \in BOOLEAN
              /\ batch_log[i].raised => batch_ret[1][i].task_id = FailedId(i)
              /\ ~batch_log[i].raised => PositionOf(batch_ret[1][i].task_id) > 0
        /\ \A i, j \in 1..Len(batch_ret[1]) :
              (i < j /\ ~batch_log[i].raised /\ ~batch_log[j].raised) =>
                  PositionOf(batch_ret[1][i].task_id) < PositionOf(batch_ret[1][j].task_id)

\* steps run_multiple_episodes still has to take before it returns, at most
BatchMeasure ==
    IF pc = "loop" THEN 2 * (num_episodes + 1 - episode) + 2
    ELSE IF pc = "sleep" THEN 2 * (num_episodes + 1 - episode) + 1
    ELSE 0

\* inside run_multiple_episodes a next step is always possible
C1_CanStep ==
    pc \in {"loop", "sleep"} =>
        /\ BatchMeasure > 0
        /\ ENABLED (BatchEpisode \/ BatchSleep \/ BatchReturn)

\* C1: for every n >= 0, run_multiple_episodes(n) terminates (each of its steps
\* can be taken and lowers a non-negative measure) and returns a list of exactly
\* n results, one per episode in episode order, each with a boolean success,
\* whether the episodes end normally or through the exception path.
C1_ReturnsNResults ==
    /\ []C1_Shape
    /\ []C1_CanStep
    /\ [][(pc = "loop" \/ pc = "sleep") =>
             /\ BatchMeasure' < BatchMeasure
             /\ BatchMeasure' >= 0
             /\ pc' = "idle" => batch_ret' # None]_vars

\* C1 witness: a batch of two returned; its first episode ended normally, its
\* second through the exception path.
C1_Witness ==
    /\ batch_ret # None
    /\ num_episodes = 2
    /\ Len(batch_ret[1]) = 2
    /\ ~batch_log[1].raised
    /\ batch_log[2].raised

\* C3: when episode k of run_multiple_episodes raises, position k of the list
\* holds a failure result with task_id episode_<k>_failed and the exception
\* text as error_message, the loop goes on with episode k+1, and the call
\* returns only after all n episodes were run.
C3_FailureIsolated ==
    /\ \A k \in 1..Len(batch_log) :
          batch_log[k].raised =>
              /\ batch_results[k].task_id = FailedId(k)
              /\ ~batch_results[k].success
              /\ batch_results[k].error_message = Some(batch_log[k].text)
    /\ Len(batch_results) = Len(batch_log)
    /\ pc = "loop" => episode = Len(batch_log) + 1
    /\ pc = "sleep" => episode = Len(batch_log) /\ episode < num_episodes
    /\ batch_ret # None => (Len(batch_log) = num_episodes /\ batch_ret[1] = batch_results)

\* C3 witness: episode 1 of 2 raised, episode 2 was still run and succeeded,
\* and the list came back with both.
C3_Witness ==
    /\ batch_ret # None
    /\ num_episodes = 2
    /\ batch_log[1].raised
    /\ batch_ret[1][1].task_id = "episode_1_failed"
    /\ ~batch_log[2].raised
    /\ batch_ret[1][2].success

\* C4: a run_episode call that returns generated exactly one task and executed
\* it once: the generator's history grew by that task, the orchestrator's
\* history grew by the returned result, which carries the task's id and name.
\* Only run_episode stores episode_ret, and every return carries a fresh task
\* id, so a step that changes episode_ret is exactly a run_episode call.
C4_OneTaskOneResult ==
    [][(episode_ret' # episode_ret /\ ~episode_ret'[1].raised) =>
          /\ Len(episode_ret'[1].task) = 1
          /\ Len(episode_ret'[1].result) = 1
          /\ task_history' = Append(task_history, episode_ret'[1].task[1])
          /\ results' = Append(results, episode_ret'[1].result[1])
          /\ episode_ret'[1].result[1].task_id = episode_ret'[1].task[1].id
          /\ episode_ret'[1].result[1].task_name = episode_ret'[1].task[1].name
          /\ \A p \in 1..Len(task_history) :
                task_history[p].id # episode_ret'[1].task[1].id]_vars

\* C4 witness: the second episode returned; both histories hold two entries and
\* the last result belongs to the last task.
C4_Witness ==
    /\ Len(episode_ret) = 1
    /\ ~episode_ret[1].raised
    /\ Len(task_history) = 2
    /\ Len(results) = 2
    /\ results[2] = episode_ret[1].result[1]
    /\ results[2].task_id = task_history[2].id
    /\ results[1].task_id # results[2].task_id

\* C5: reset_all_agents() empties the orchestrator's result history, the
\* generator's task history and the executor's result history, and a second
\* reset changes nothing.
C5_ResetClearsAll ==
    [][ResetAllAgents =>
          /\ results' = <<>>
          /\ task_history' = <<>>
          /\ executor_results' = <<>>
          /\ Reset(results') = results'
          /\ Reset(executor_results') = executor_results']_vars

(***************************************************************************)
(* Claims about get_statistics (checked under SpecStats)                   *)
(***************************************************************************)
\* names with at least one success and at least one failure
MixedNames(rs) ==
    {name \in TaskNames(rs) :
        /\ \E i \in 1..Len(rs) : rs[i].task_name = name /\ rs[i].success
        /\ \E i \in 1..Len(rs) : rs[i].task_name = name /\ ~rs[i].success}

\* C6: on a non-empty history flaky_tasks is the number of distinct task names
\* with at least one success and at least one failure, and flakiness_rate is
\* flaky_tasks divided by the number of distinct task names.
C6_Flakiness ==
    (stats # None /\ results # <<>>) =>
        /\ stats[1].flaky_tasks = Cardinality(MixedNames(results))
        /\ stats[1].flakiness_rate.num = stats[1].flaky_tasks
        /\ stats[1].flakiness_rate.den = Cardinality(TaskNames(results))
        /\ stats[1].flakiness_rate.den > 0

\* C6 witness: X = [true, false, true] and Y = [true, true] in some order give
\* flaky_tasks 1 and flakiness_rate 1/2.
C6_Witness ==
    /\ stats # None
    /\ Len(results) = 5
    /\ \E x, y \in TaskNames(results) :
          /\ x # y
          /\ Len(ResultsNamed(results, x)) = 3
          /\ ResultsNamed(results, x)[1].success
          /\ ~ResultsNamed(results, x)[2].success
          /\ ResultsNamed(results, x)[3].success
          /\ Len(ResultsNamed(results, y)) = 2
          /\ \A i \in 1..2 : ResultsNamed(results, y)[i].success
    /\ stats[1].flaky_tasks = 1
    /\ 2 * stats[1].flakiness_rate.num = stats[1].flakiness_rate.den

\* C7: get_statistics returns an empty mapping on an empty history; otherwise
\* total_tasks is the history length, successful_tasks + failed_tasks is
\* total_tasks, and a history of successes only has success_rate 1 and
\* flakiness_rate 0.
C7_Totals ==
    stats # None =>
        /\ results = <<>> => DOMAIN stats[1] = {}
        /\ results # <<>> =>
              /\ stats[1].total_tasks = Len(results)
              /\ stats[1].successful_tasks + stats[1].failed_tasks = stats[1].total_tasks
              /\ stats[1].successful_tasks >= 0
              /\ stats[1].failed_tasks >= 0
              /\ (\A i \in 1..Len(results) : results[i].success) =>
                    /\ stats[1].success_rate.num = stats[1].success_rate.den
                    /\ stats[1].success_rate.den > 0
                    /\ stats[1].flakiness_rate.num = 0
                    /\ stats[1].flakiness_rate.den > 0

\* C7 witness: statistics of a history of three successes.
C7_Witness ==
    /\ stats # None
    /\ Len(results) = 3
    /\ \A i \in 1..3 : results[i].success
    /\ stats[1].total_tasks = 3
    /\ stats[1].failed_tasks = 0

(***************************************************************************)
(* More claims about execute_task (checked under SpecExec)                 *)
(***************************************************************************)
\* C11 as stated: a removal task yields a success result for every parameter
\* mapping and every bridge outcome, with removal_simulated in the metrics
\* when the package name appears in the list-packages output and
\* already_removed otherwise.
C11_RemovalAlwaysSucceeds ==
    (Called /\ TypeOf(last_task[1]) = "removal") =>
        /\ last_exec[1].result[1].success
        /\ LET m == last_exec[1].result[1].metrics[1]
               pkg == Get(Get(last_task[1], "parameters", EmptyDict), "package_name", "")
           IN  IF Contains(last_env[1].bridge.stdout, <<pkg>>)
               THEN "removal_simulated" \in DOMAIN m
               ELSE "already_removed" \in DOMAIN m

\* C11 amended: a removal task succeeds exactly when its task file was
\* written, its parameters carry a non-empty package_name and the
\* list-packages command completed (with any exit code); the metrics then
\* carry removal_simulated when the package name appears in the command's
\* output and already_removed otherwise. A missing package name, a timeout or
\* an exception of the bridge gives a failure with an error_message.
C11_RemovalSucceedsWhenListed ==
    (Called /\ TypeOf(last_task[1]) = "removal") =>
        LET r == last_exec[1].result[1]
            pkg == Get(Get(last_task[1], "parameters", EmptyDict), "package_name", "")
            listed == /\ last_exec[1].file # None
                      /\ "parameters" \in DOMAIN last_task[1]
                      /\ pkg # ""
                      /\ last_env[1].bridge.kind = "completed"
        IN  /\ r.success <=> listed
            /\ listed =>
                  /\ Len(last_exec[1].calls) = 1
                  /\ r.error_message = None
                  /\ r.metrics[1].package_name = pkg
                  /\ IF Contains(last_env[1].bridge.stdout, <<pkg>>)
                     THEN /\ "removal_simulated" \in DOMAIN r.metrics[1]
                          /\ "already_removed" \notin DOMAIN r.metrics[1]
                     ELSE /\ "already_removed" \in DOMAIN r.metrics[1]
                          /\ "removal_simulated" \notin DOMAIN r.metrics[1]
            /\ ~listed =>
                  /\ Len(r.error_message) = 1
                  /\ r.metrics = Some(EmptyDict)

\* C11 witness: the list-packages command exited with 1 and printed nothing;
\* the removal is reported as a success with already_removed.
C11_Witness ==
    /\ Called
    /\ TypeOf(last_task[1]) = "removal"
    /\ Len(last_exec[1].calls) = 1
    /\ last_env[1].bridge.kind = "completed"
    /\ last_env[1].bridge.returncode = 1
    /\ last_exec[1].result[1].success
    /\ "already_removed" \in DOMAIN last_exec[1].result[1].metrics[1]

\* C18: every result execute_task returns carries an error_message exactly
\* when its success is false; a success result carries none.
C18_ErrorIffFailure ==
    Called =>
        /\ Len(last_exec[1].result) = 1
        /\ last_exec[1].result[1].success <=> last_exec[1].result[1].error_message = None
        /\ ~last_exec[1].result[1].success <=> Len(last_exec[1].result[1].error_message) = 1

\* C18 witness: a task with no id failed while its task file was prepared;
\* the result is a failure and carries the KeyError text.
C18_Witness ==
    /\ Called
    /\ "id" \notin DOMAIN last_task[1]
    /\ TypeOf(last_task[1]) = "installation"
    /\ last_exec[1].calls = <<>>
    /\ ~last_exec[1].result[1].success
    /\ Len(last_exec[1].result[1].error_message) = 1

\* C24: execute_task writes the task file before it dispatches: a bridge
\* command is issued only after the file was written, and when writing fails
\* (the file system refuses, or the task has no id) the call returns a failure
\* result with the exception text as error_message and issues no bridge command.
C24_FileBeforeDispatch ==
    Called =>
        /\ last_exec[1].calls # <<>> => last_exec[1].file # None
        /\ last_exec[1].file = None <=>
              ("id" \notin DOMAIN last_task[1] \/ last_env[1].fs.kind = "exception")
        /\ last_exec[1].file = None =>
              /\ last_exec[1].calls = <<>>
              /\ ~last_exec[1].raised
              /\ ~last_exec[1].result[1].success
              /\ last_exec[1].result[1].error_message =
                    Some(IF "id" \notin DOMAIN last_task[1] THEN KeyErrorText("id")
                         ELSE last_env[1].fs.text)

\* C24 witness: the file system refused the task file of a navigation task
\* whose bridge command would have succeeded.
C24_Witness ==
    /\ Called
    /\ "id" \in DOMAIN last_task[1]
    /\ TypeOf(last_task[1]) = "navigation"
    /\ last_env[1].fs.kind = "exception"
    /\ last_env[1].bridge.kind = "completed"
    /\ last_env[1].bridge.returncode = 0
    /\ last_exec[1].file = None
    /\ last_exec[1].calls = <<>>
    /\ last_exec[1].result[1].error_message =
          Some(<<"[Errno", "13]", "Permission", "denied">>)

(***************************************************************************)
(* Claims about executing generated tasks (checked under SpecGenerated)    *)
(***************************************************************************)
MissingParameterTexts ==
    {<<"Missing", "package", "name">>,
     <<"Missing", "APK", "path", "or", "package", "name">>}

\* C29: a task produced by generate_task carries the parameters its handler
\* validates: its execution never ends in a missing-parameter failure, and
\* when its task file was written exactly one bridge command is issued.
C29_CatalogTasksDispatch ==
    Called =>
        /\ \A text \in MissingParameterTexts :
              last_exec[1].result[1].error_message # Some(text)
        /\ last_exec[1].file # None => Len(last_exec[1].calls) = 1

\* C29 witness: the generated removal task ran its one list-packages command
\* with the catalog's package name, and succeeded.
C29_Witness ==
    /\ Called
    /\ last_task[1].name = "Uninstall App"
    /\ last_task[1].parameters.package_name = "com.example.testapp"
    /\ Len(last_exec[1].calls) = 1
    /\ last_exec[1].calls[1].cmd[Len(last_exec[1].calls[1].cmd)] = "com.example.testapp"
    /\ last_exec[1].result[1].success

(***************************************************************************)
(* Claims about information gathering (checked under SpecInfoGathering)    *)
(***************************************************************************)
WifiStatusCommand == <<"adb", "shell", "dumpsys", "wifi", "|", "grep", "'Wi-Fi is'">>

BatteryCommand == <<"adb", "shell", "dumpsys", "battery">>

PropertyDumpCommand == <<"adb", "shell", "getprop">>

\* the command the claim assigns to a check_type
CommandFor(check_type) ==
    IF check_type = "wifi_status" THEN WifiStatusCommand
    ELSE IF check_type = "battery_info" THEN BatteryCommand
    ELSE PropertyDumpCommand

\* C30: the information_gathering handler issues the Wi-Fi status command
\* only for check_type wifi_status, the battery command only for
\* battery_info and the generic property dump for every other check_type (or
\* none); hence no task produced by generate_task, the catalog's
\* "Check WiFi Status" task included, causes the Wi-Fi status command.
C30_WifiOnlyForWifiStatus ==
    Called =>
        /\ (TypeOf(last_task[1]) = "information_gathering" /\ last_exec[1].calls # <<>>) =>
              /\ Len(last_exec[1].calls) = 1
              /\ last_exec[1].calls[1].cmd =
                    CommandFor(Get(last_task[1].parameters, "check_type", "general"))
        /\ last_task[1] \in GeneratedTasks =>
              \A i \in 1..Len(last_exec[1].calls) :
                  last_exec[1].calls[i].cmd # WifiStatusCommand

\* C30 witness: the generated "Check WiFi Status" task was answered with the
\* property dump.
C30_Witness ==
    /\ Called
    /\ last_task[1] \in GeneratedTasks
    /\ last_task[1].name = "Check WiFi Status"
    /\ last_task[1].parameters.check_type = "connection_status"
    /\ Len(last_exec[1].calls) = 1
    /\ last_exec[1].calls[1].cmd = PropertyDumpCommand
    /\ last_exec[1].result[1].success

\* the Wi-Fi status command is issued for check_type wifi_status
C30_WifiStatusAsked ==
    /\ Called
    /\ TypeOf(last_task[1]) = "information_gathering"
    /\ Get(last_task[1].parameters, "check_type", "general") = "wifi_status"
    /\ last_exec[1].calls # <<>>
    /\ last_exec[1].calls[1].cmd = WifiStatusCommand

(***************************************************************************)
(* Claims about reconfiguration (checked under SpecConfigured)             *)
(***************************************************************************)
\* the task file and the generic runner command of an execute_task call are
\* built from these four settings
UsesSettings(exec, task, runner_path, emulator_ip, emulator_port, working_directory) ==
    /\ exec.file # None =>
          /\ exec.file[1].path[1] = working_directory
          /\ exec.file[1].content.execution.emulator_ip = emulator_ip
          /\ exec.file[1].content.execution.emulator_port = emulator_port
    /\ (TypeOf(task) \notin NamedTypes /\ exec.calls # <<>>) =>
          exec.calls[1].cmd[1] = runner_path

\* C21: every execute_task call uses the emulator_ip, emulator_port,
\* working_directory and runner_path that the configure_agents calls made so
\* far have set (the defaults for what was never set): in the location and
\* the contents of the task file and in the generic runner command.
C21_ConfigurationApplies ==
    [][last_exec' # last_exec =>
          UsesSettings(last_exec'[1], last_task'[1],
                       Get(executor'.config, "runner_path", "./run.sh"),
                       Get(executor'.config, "emulator_ip", "localhost"),
                       Get(executor'.config, "emulator_port", "5555"),
                       Get(executor'.config, "working_directory", "."))]_vars

\* What the code does instead: every execute_task call uses the settings the
\* executor was constructed with, whatever configure_agents was given.
C21_ConstructionSettingsStay ==
    [][last_exec' # last_exec =>
          UsesSettings(last_exec'[1], last_task'[1],
                       "./run.sh", "localhost", "5555", ".")]_vars

(***************************************************************************)
(* Claims about the execution hints (checked under SpecHinted)             *)
(***************************************************************************)
\* two execute_task outcomes show the same behaviour towards the bridge and
\* the caller
SameExecution(a, b) ==
    /\ a.calls = b.calls
    /\ a.result[1].success = b.result[1].success
    /\ a.result[1].error_message = b.result[1].error_message

\* C23: a task's priority, timeout and retry_count do not influence its
\* execution: with any other hints (or none) and the same file-system and
\* bridge outcome, execute_task issues the same bridge commands with the same
\* timeouts, at most one command whatever the outcome and retry_count, and
\* returns the same success and error_message.
C23_HintsIgnored ==
    Called =>
        /\ Len(last_exec[1].calls) <= 1
        /\ \A h \in HintChoices :
              SameExecution(last_exec[1],
                            ExecuteTask(executor, Update(Without(last_task[1], HintKeys), h),
                                        last_env[1], 0, 0))

\* C23 witness: a navigation task with retry_count 2 and timeout 120 whose
\* bridge command timed out: one command, under the handler's 30 seconds.
C23_Witness ==
    /\ Called
    /\ TypeOf(last_task[1]) = "navigation"
    /\ "retry_count" \in DOMAIN last_task[1]
    /\ last_task[1].retry_count = 2
    /\ last_task[1].timeout = 120
    /\ last_env[1].bridge.kind = "timeout"
    /\ Len(last_exec[1].calls) = 1
    /\ last_exec[1].calls[1].timeout = 30
    /\ ~last_exec[1].result[1].success

(***************************************************************************)
(* Claims about result timing (checked under SpecTimed)                    *)
(***************************************************************************)
\* seconds since the epoch of a start_time / end_time, be it a datetime or a
\* float (no change of the UTC offset between the two readings)
SecondsOf(t) == IF "datetime" \in DOMAIN t THEN t.datetime ELSE t.timestamp

Elapsed(r) == SecondsOf(r.end_time) - SecondsOf(r.start_time)

\* end_time >= start_time, and execution_time is end_time - start_time up to
\* the two clock readings that bound it
TimesConsistent(r) ==
    /\ Elapsed(r) >= 0
    /\ r.execution_time - Elapsed(r) <= 2 * Granule
    /\ Elapsed(r) - r.execution_time <= 2 * Granule

BatchReturning == pc = "loop" /\ pc' = "idle"

\* The history was empty when the batch was called: during a batch only its
\* own episodes touch the history, one append per episode that did not raise.
CalledOnEmptyHistory ==
    Len(results) = Cardinality({i \in 1..Len(batch_log) : ~batch_log[i].raised})

\* C20: when run_multiple_episodes(n), called on an orchestrator with empty
\* history, returns, every returned result (a synthesized failure result
\* included) is in the orchestrator's history, the history has n entries and
\* get_statistics and get_comprehensive_statistics report total_tasks and
\* total_episodes equal to n (an absent total_tasks read as 0).
C20_BatchRecorded ==
    [][(BatchReturning /\ CalledOnEmptyHistory) =>
          /\ \A i \in 1..Len(batch_ret'[1]) :
                \E j \in 1..Len(results') : results'[j] = batch_ret'[1][i]
          /\ Len(results') = num_episodes
          /\ Get(GetStatistics(results'), "total_tasks", 0) = num_episodes
          /\ GetComprehensiveStatistics(results', task_history', executor_results')
                .summary.total_episodes = num_episodes]_vars

\* The part of C20 the code keeps: the batch's results that run_episode
\* returned are the history, in order.
C20_ReturnedEpisodesRecorded ==
    [][(BatchReturning /\ CalledOnEmptyHistory) =>
          /\ results' = SelectSeq(batch_ret'[1], LAMBDA r : "datetime" \in DOMAIN r.start_time)
          /\ Get(GetStatistics(results'), "total_tasks", 0) = Len(results')
          /\ GetComprehensiveStatistics(results', task_history', executor_results')
                .summary.total_episodes = Len(results')]_vars

\* C22: the episodes of run_multiple_episodes(n) run one after another and a
\* pause follows every episode but the last, whether the episode returned or
\* raised: the returned batch made exactly n - 1 pauses (none for n = 0), the
\* k-th after episode k.
C22_PauseBetweenAll ==
    /\ pc = "sleep" => (Len(batch_log) = episode /\ episode < num_episodes)
    /\ batch_ret # None => sleeps = [k \in 1..(num_episodes - 1) |-> k]

\* What the code does instead: a pause follows every episode but the last
\* that returned a result; an episode that raised is followed by none.
C22_PauseAfterReturned ==
    /\ pc = "sleep" => (Len(batch_log) = episode /\ episode < num_episodes)
    /\ batch_ret # None =>
          sleeps = SelectSeq([k \in 1..(num_episodes - 1) |-> k],
                             LAMBDA k : ~batch_log[k].raised)

\* C27: running episodes through the orchestrator leaves the executor's own
\* result history empty: after any run_episode / run_multiple_episodes calls
\* the task_executor part of get_comprehensive_statistics is an empty mapping
\* and get_agent_status reports tasks_executed = 0, however many episodes the
\* orchestrator has recorded.
C27_ExecutorHistoryStaysEmpty ==
    /\ executor_results = <<>>
    /\ GetComprehensiveStatistics(results, task_history, executor_results).task_executor
          = EmptyDict
    /\ GetAgentStatus(results, task_history, executor_results).task_executor.tasks_executed
          = 0

\* C27 witness: a run_episode call and a batch have put two results into the
\* orchestrator's history, which its status reports; the executor's is empty.
C27_Witness ==
    /\ Len(results) = 2
    /\ batch_ret # None
    /\ Len(batch_ret[1]) = 1
    /\ batch_ret[1][1] = results[2]
    /\ executor_results = <<>>
    /\ GetAgentStatus(results, task_history, executor_results).orchestrator.episodes_run = 2

\* tasks in the generator's history that have no result in the orchestrator's
Unmatched == Len(task_history) - Len(results)

\* C28: under every interleaving of run_episode, run_multiple_episodes and
\* reset_all_agents the generator's task history is at least as long as the
\* orchestrator's result history; the two start equal and only a
\* reset_all_agents call or an episode that ended in the exception path
\* changes their difference.
C28_HistoryCoversResults ==
    /\ [](Unmatched >= 0)
    /\ [](uuid_counter = 0 => Unmatched = 0)
    /\ [][Unmatched' # Unmatched =>
             \/ results # <<>> /\ results' = <<>>
             \/ /\ episode_ret' # None
                /\ episode_ret'[1].raised
                /\ task_history' # task_history]_vars

\* C28 witness: two tasks generated, and only the second one's result is in
\* the orchestrator's history.
C28_Witness ==
    /\ Len(task_history) = 2
    /\ Len(results) = 1
    /\ results[1].task_id = task_history[2].id
    /\ Unmatched = 1

(***************************************************************************)
(* Claims about the HTTP front door (checked under SpecServer and          *)
(* FairSpecServer)                                                         *)
(***************************************************************************)
IsTaskPost(req) == req.method = "POST" /\ req.path = "/task"

\* the request carried a well-formed JSON body, framed by its Content-Length
WellFormedJson(req) ==
    /\ req.content_length = "ok"
    /\ req.body.utf8
    /\ req.body.json # None

\* C12: POST /task with any well-formed JSON body (object, array or scalar,
\* with or without task_id / task_type) is answered with status 200 and a JSON
\* result whose success is true, whose task_id and task_type echo the
\* request's values and whose duration is a number.
C12_TaskPostAlways200 ==
    \A i \in 1..Len(responses) :
        (IsTaskPost(responses[i].req) /\ WellFormedJson(responses[i].req)) =>
            /\ responses[i].response.status = 200
            /\ responses[i].response.body.json.success = TRUE
            /\ responses[i].response.body.json.task_id =
                  (IF "task_id" \in DOMAIN responses[i].req.body.json[1].fields
                   THEN Some(responses[i].req.body.json[1].fields.task_id) ELSE None)
            /\ responses[i].response.body.json.task_type =
                  (IF "task_type" \in DOMAIN responses[i].req.body.json[1].fields
                   THEN Some(responses[i].req.body.json[1].fields.task_type) ELSE None)
            /\ responses[i].response.body.json.duration \in Nat

\* the entries with this message prefix that the sink holds, in the cloud log
\* or (fallback) in the local log
EventCount(prefix) ==
    Cardinality({i \in 1..Len(cloud_log) :
                    cloud_log[i].text_payload.json.message[1] = prefix})
    + Cardinality({i \in 1..Len(local_log) :
                      /\ local_log[i].level = "INFO"
                      /\ local_log[i].message.json.message[1] = prefix})

\* POST /task requests answered with this status so far
TaskResponses(status) ==
    Cardinality({i \in 1..Len(responses) :
                    IsTaskPost(responses[i].req) /\ responses[i].response.status = status})

\* the server is inside _execute_task's simulated execution
InSimulatedExecution == current # None /\ current[1].phase = "sleep"

NotValidJson(req) ==
    /\ IsTaskPost(req)
    /\ req.content_length # "bad"
    /\ ReadBody(req).json = None

UnknownPath(req) ==
    \/ req.method = "GET" /\ req.path \notin GetPaths
    \/ req.method = "POST" /\ req.path # "/task"

\* handling the request raises although its body is valid JSON: the
\* Content-Length header is no number, or the JSON value is no object
RaisesOnValidJson(req) ==
    /\ IsTaskPost(req)
    /\ \/ req.content_length = "bad"
       \/ WellFormedJson(req) /\ req.body.json[1].type # "object"

\* C13: every request gets exactly one response status: POST /task with a
\* body that is not valid JSON gets 400, a path other than the five GET
\* endpoints (for GET) or /task (for POST) gets 404, an exception raised
\* while handling gets 500 with the exception's string, and none of these is
\* answered with 200.
C13_ErrorStatuses ==
    /\ \A i, j \in 1..Len(responses) : responses[i].id = responses[j].id => i = j
    /\ \A i \in 1..Len(responses) :
          /\ NotValidJson(responses[i].req) => responses[i].response.status = 400
          /\ UnknownPath(responses[i].req) => responses[i].response.status = 404
          /\ RaisesOnValidJson(responses[i].req) =>
                /\ responses[i].response.status = 500
                /\ responses[i].response.body.json.error \in
                      {BadLengthText, NoGetText(responses[i].req.body.json[1].type)}

\* every response to GET /health is 200 with status healthy
C14_HealthIs200 ==
    \A i \in 1..Len(responses) :
        (responses[i].req.method = "GET" /\ responses[i].req.path = "/health") =>
            /\ responses[i].response.status = 200
            /\ responses[i].response.body.json.status = "healthy"

\* request number id is a GET /health that was sent and is not answered yet
HealthSent(id) ==
    \/ \E p \in 1..Len(backlog) :
          /\ backlog[p].id = id
          /\ backlog[p].req.method = "GET"
          /\ backlog[p].req.path = "/health"
    \/ /\ current # None
       /\ current[1].id = id
       /\ current[1].req.method = "GET"
       /\ current[1].req.path = "/health"

HealthAnswered(id) ==
    \E i \in 1..Len(responses) :
        /\ responses[i].id = id
        /\ responses[i].req.path = "/health"
        /\ responses[i].req.method = "GET"
        /\ responses[i].response.status = 200
        /\ responses[i].response.body.json.status = "healthy"

\* C14: every GET /health request is eventually answered with 200 and status
\* healthy, whatever was handled before it (failed POST /task requests
\* included) and whatever other requests wait or are handled at the same
\* time; so are several GET /health requests sent together.
C14_HealthEventuallyAnswered ==
    /\ []C14_HealthIs200
    /\ \A id \in 1..(MaxRequests + 1) : HealthSent(id) ~> HealthAnswered(id)

\* C14 witness: the second GET /health was answered with 200 while sent
\* behind a POST /task that was answered with 500.
C14_Witness ==
    /\ Len(responses) = 2
    /\ IsTaskPost(responses[1].req)
    /\ responses[1].response.status = 500
    /\ responses[2].req.path = "/health"
    /\ responses[2].req.method = "GET"
    /\ responses[2].response.status = 200

\* C15: while one request is inside the simulated delay of POST /task, a
\* request waiting on another connection can start being handled.
C15_ServesConcurrently ==
    (current # None /\ current[1].phase = "sleep" /\ backlog # <<>>) =>
        ENABLED AcceptRequest

RECURSIVE SumOver(_, _)
SumOver(f, keys) ==
    IF keys = {} THEN 0
    ELSE LET k == CHOOSE x \in keys : TRUE IN f[k] + SumOver(f, keys \ {k})

FromCatalog(task) ==
    \E k \in 1..Len(TaskTemplates) :
        /\ TaskTemplates[k].name = task.name
        /\ TaskTemplates[k].type = task.type

\* what the claim says of the statistics returned for this history
StatisticsMatch(st, history) ==
    IF history = <<>> THEN DOMAIN st = {}
    ELSE /\ st.total_generated = Len(history)
         /\ SumOver(st.task_types, DOMAIN st.task_types) = st.total_generated
         /\ \A t \in DOMAIN st.task_types :
               /\ st.task_types[t] > 0
               /\ \E k \in 1..Len(TaskTemplates) : TaskTemplates[k].type = t

\* C17: after any sequence of generate_task calls every task of the
\* generator's history has a name/type pair of one of the eight catalog
\* templates; each get_task_statistics call returns total_generated equal to
\* the history length with task_types counts that sum to it, and an empty
\* mapping when the history is empty.
C17_GeneratorCatalog ==
    /\ [](\A i \in 1..Len(task_history) : FromCatalog(task_history[i]))
    /\ [](Len(TaskTemplates) = 8)
    /\ [][task_stats' # task_stats =>
             StatisticsMatch(task_stats'[1], task_history')]_vars

\* C17 witness: statistics of three generated tasks of two types.
C17_Witness ==
    /\ task_stats # None
    /\ Len(task_history) = 3
    /\ DOMAIN task_stats[1] # {}
    /\ task_stats[1].total_generated = 3
    /\ Cardinality(DOMAIN task_stats[1].task_types) = 2
    /\ task_stats[1].unique_tasks = 2

(***************************************************************************)
(* Claims about the generator's history under both kinds of generate call  *)
(* (checked under SpecCustomGenerator)                                     *)
(***************************************************************************)
\* C26: the generator's task history is append-only: every generate_task and
\* generate_custom_task call appends exactly one task at the end and leaves
\* the earlier entries as they were, in their order, and the new task's id
\* differs from the id of every task already in the history.
C26_AppendOnlyFreshIds ==
    /\ [](\A i, j \in 1..Len(task_history) :
             i # j => task_history[i].id # task_history[j].id)
    /\ [][/\ Len(task_history') = Len(task_history) + 1
          /\ SubSeq(task_history', 1, Len(task_history)) = task_history
          /\ \A i \in 1..Len(task_history) :
                task_history[i].id # task_history'[Len(task_history')].id]_vars

\* C26 witness: a catalog task, then two custom tasks of the same type and
\* parameters, three different ids.
C26_Witness ==
    /\ Len(task_history) = 3
    /\ task_history[1].name = "Open App"
    /\ task_history[2].name = "Custom_demo"
    /\ task_history[3] = [task_history[2] EXCEPT !.id = task_history[3].id]
    /\ Cardinality({task_history[i].id : i \in 1..3}) = 3

====
